---- MODULE Spec2Model ----
(***************************************************************************)
(* Model of the bulk-load pipeline of import.py: the orchestrator main(),  *)
(* the seven per-table importers and copy_with_temp(), running against a   *)
(* transactional database and a data directory of CSV files.               *)
(***************************************************************************)
EXTENDS Integers, Sequences, FiniteSets, TLC

VARIABLES
  dataDir,   \* TRUE iff the configured DATA_DIR exists
  files,     \* the data directory: table name -> CSV file, or Absent
  db,        \* the committed database: target tables and staging tables
  tx,        \* the open transaction's uncommitted changes, or NoTx
  pc,        \* the position of the process in main / importer / copy_with_temp
  idx,       \* index into steps of the table the for loop is at
  csv,       \* the importer's local csv path and what the file there holds
  tmpCsv,    \* per importer, the temporary CSV files in the temp directory, oldest first
  log,       \* the lines printed by main in this run, in order
  err,       \* the exception that is propagating, or NoErr
  pre,       \* the committed database when this run started
  last,      \* how the previous run ended and the database it left
  loaded,    \* the rows each table's INSERT of this run added
  call,      \* the function called on its own, with its arguments, or NoCall
  ret,       \* the value that call returned, or NoCall
  feeder,    \* the incidents_feeder.py process: position, batch, open transaction
  ops,       \* per table, the file_in tests and INSERT statements of this run
  env        \* what the run is given from outside: the schema's key constraint, the path text

vars == <<dataDir, env, files, db, tx, pc, idx, csv, tmpCsv, log, err, pre, last, loaded,
          call, ret, feeder, ops>>

(***************************************************************************)
(* Bounds of the model.                                                    *)
(***************************************************************************)
MaxRows == 2

\* the longest header row of a roads file whose names are drawn freely
MaxHdr == 3

\* the longest text handed to ensure_json, the worked examples apart
MaxChars == 3

\* the temporary CSV files left behind after which the script is not started again
MaxLeaked == 2

\* the rows with a NULL key in a table after which the script is not started again
MaxNullKeys == 2

\* no function is being called on its own
NoCall == <<"none">>

\* a file, temporary file or staging table that does not exist
Absent == [exists |-> FALSE, hdr |-> <<>>, rows |-> <<>>]

NULL == <<"null">>

(***************************************************************************)
(* Process-wide constants of import.py.                                    *)
(***************************************************************************)
\* variant: assignments is listed before its parents
steps_ChildFirst == <<"assignments", "roads", "truck_profiles", "deliveries",
                      "historical_speeds", "incidents", "weather">>

\* the steps list of main, in its order
steps == <<"roads", "truck_profiles", "deliveries", "assignments",
           "historical_speeds", "incidents", "weather">>

TableNames == {steps[i] : i \in 1..Len(steps)}

\* the cols list of each importer
Cols(t) ==
  CASE t = "roads" ->
         <<"segment_id", "road_id", "from_lat", "from_lon", "to_lat", "to_lon",
           "length_m", "road_type", "lanes", "speed_limit_kph", "oneway",
           "municipality", "province">>
    [] t = "truck_profiles" ->
         <<"truck_id", "max_weight_tons", "height_m", "width_m", "hazmat">>
    [] t = "deliveries" ->
         <<"delivery_id", "truck_id", "scheduled_departure_utc",
           "scheduled_arrival_utc", "origin_name", "origin_lat", "origin_lon",
           "destination_name", "destination_lat", "destination_lon",
           "priority", "commodity", "per_km_cost_rand", "per_hour_cost_rand">>
    [] t = "assignments" ->
         <<"assignment_id", "delivery_id", "planned_departure_utc",
           "planned_arrival_utc", "planned_distance_km", "planned_duration_min",
           "route_segments", "status", "reason">>
    [] t = "historical_speeds" ->
         <<"segment_id", "timestamp", "avg_speed_kph", "pct_freeflow",
           "vehicle_count", "interval_minutes", "source">>
    [] t = "incidents" ->
         <<"incident_id", "timestamp", "type", "severity", "lat", "lon",
           "affected_segment_id", "description", "source">>
    [] t = "weather" ->
         <<"station_id", "timestamp", "lat", "lon", "temperature_c",
           "precip_mm_h", "wind_kph", "visibility_km", "wx_condition",
           "nearest_segment_id">>

ColSet(t) == {Cols(t)[i] : i \in 1..Len(Cols(t))}

\* the key_cols argument each importer passes to copy_with_temp
KeyCols(t) ==
  CASE t = "roads" -> <<"segment_id">>
    [] t = "truck_profiles" -> <<"truck_id">>
    [] t = "deliveries" -> <<"delivery_id">>
    [] t = "assignments" -> <<"assignment_id">>
    [] t = "historical_speeds" -> <<"segment_id", "timestamp">>
    [] t = "incidents" -> <<"incident_id">>
    [] t = "weather" -> <<"station_id", "timestamp">>

\* variant: the importers call copy_with_temp without upsert
Upsert_Off(t) == FALSE

\* the upsert argument each importer passes to copy_with_temp
Upsert(t) == TRUE

(***************************************************************************)
(* Cast templates.  A template is one of                                   *)
(*   CAST_NUM   CAST({col} AS NUMERIC(p,s))     NULLIF_NUM  NULLIF(..)::NUMERIC *)
(*   NULLIF_INT NULLIF({col}, '')::INT                                     *)
(*   CAST_TS    CAST({col} AS TIMESTAMPTZ)      NULLIF_TS   NULLIF(..)::TIMESTAMPTZ *)
(*   NULLIF_JSON NULLIF({col}, '')::JSONB       ENUM  <schema>.<x>_enum({col}) *)
(*   NONE       no entry in casts: the raw text is selected                *)
(***************************************************************************)
Casts_Table(t, c) ==
  CASE t = "roads" ->
         (CASE c \in {"from_lat", "from_lon", "to_lat", "to_lon"} -> "CAST_NUM"
            [] c = "length_m" -> "NULLIF_NUM"
            [] c \in {"lanes", "speed_limit_kph", "oneway"} -> "NULLIF_INT"
            [] c = "road_type" -> "ENUM"
            [] OTHER -> "NONE")
    [] t = "historical_speeds" ->
         (CASE c = "timestamp" -> "CAST_TS"
            [] c \in {"avg_speed_kph", "pct_freeflow"} -> "NULLIF_NUM"
            [] c \in {"vehicle_count", "interval_minutes"} -> "NULLIF_INT"
            [] OTHER -> "NONE")
    [] t = "incidents" ->
         (CASE c = "timestamp" -> "CAST_TS"
            [] c = "type" -> "ENUM"
            [] c = "severity" -> "NULLIF_INT"
            [] c \in {"lat", "lon"} -> "NULLIF_NUM"
            [] OTHER -> "NONE")
    [] t = "weather" ->
         (CASE c = "timestamp" -> "CAST_TS"
            [] c \in {"lat", "lon"} -> "CAST_NUM"
            [] c \in {"temperature_c", "precip_mm_h", "wind_kph",
                      "visibility_km"} -> "NULLIF_NUM"
            [] c = "wx_condition" -> "ENUM"
            [] OTHER -> "NONE")
    [] t = "truck_profiles" ->
         (CASE c \in {"max_weight_tons", "height_m", "width_m"} -> "NULLIF_NUM"
            [] c = "hazmat" -> "NULLIF_INT"
            [] OTHER -> "NONE")
    [] t = "deliveries" ->
         (CASE c \in {"scheduled_departure_utc", "scheduled_arrival_utc"} ->
                 "NULLIF_TS"
            [] c \in {"origin_lat", "origin_lon", "destination_lat",
                      "destination_lon", "per_km_cost_rand",
                      "per_hour_cost_rand"} -> "NULLIF_NUM"
            [] c = "priority" -> "ENUM"
            [] OTHER -> "NONE")
    [] t = "assignments" ->
         (CASE c \in {"planned_departure_utc", "planned_arrival_utc"} ->
                 "NULLIF_TS"
            [] c = "planned_distance_km" -> "NULLIF_NUM"
            [] c = "planned_duration_min" -> "NULLIF_INT"
            [] c = "route_segments" -> "NULLIF_JSON"
            [] c = "status" -> "ENUM"
            [] OTHER -> "NONE")

\* variant: every numeric and timestamp template wraps the column in NULLIF
Casts_AllNullIf(t, c) ==
  CASE Casts_Table(t, c) = "CAST_NUM" -> "NULLIF_NUM"
    [] Casts_Table(t, c) = "CAST_TS" -> "NULLIF_TS"
    [] OTHER -> Casts_Table(t, c)

\* variant: the enum columns have no entry in casts
Casts_NoEnum(t, c) == IF Casts_Table(t, c) = "ENUM" THEN "NONE" ELSE Casts_Table(t, c)

\* the casts dict of importer t at column c
Casts(t, c) == Casts_Table(t, c)

(***************************************************************************)
(* Text values.  A CSV field is a string; the field written as two double  *)
(* quotes is the quoted empty string.  A database cell is NULL or a tagged *)
(* value: <<"text", s>> in a staging table, a typed value in a target.     *)
(***************************************************************************)
QEmpty == "\"\""

Text(s) == <<"text", s>>

Error(cause) == <<"error", cause>>

IsError(v) == v[1] = "error"

\* integer literals PostgreSQL's INT input accepts, and their values
IntText == {"1", "2", "01"}

\* literals NUMERIC accepts that INT does not
DecText == {"1.0", "2.0"}

NumVal(s) ==
  CASE s \in {"1", "01", "1.0"} -> 1
    [] s \in {"2", "2.0"} -> 2

\* literals TIMESTAMPTZ input accepts
TsText == {"2025-06-01", "2025-06-02"}

\* texts JSONB input accepts: containers and JSON numbers ("01" is not one)
JsonText == {"[]", "[\"X\"]", "[\"A\",\"B\",\"C\"]", "{}", "1", "2", "1.0", "2.0"}

\* the vocabulary of the schema's enum lookup functions, per enum column
Vocab(c) ==
  CASE c = "type" -> {"accident", "roadwork", "closure", "hazard"}
    [] c = "road_type" -> {"motorway", "arterial"}
    [] c = "wx_condition" -> {"clear", "rain"}
    [] c = "priority" -> {"low", "high"}
    [] c = "status" -> {"planned", "rerouted"}
    [] OTHER -> {}

\* <schema>.road_enum / incident_enum / wx_enum / priority_enum /
\* assign_status_enum: a validating lookup that fails on an unknown token
enum_lookup(c, v) ==
  IF v = NULL \/ v = Text("") THEN NULL
  ELSE IF v[2] \in Vocab(c) THEN <<"enum", v[2]>>
  ELSE Error("invalid_enum")

\* PostgreSQL's NULLIF(v, '')
NullIfEmpty(v) == IF v = Text("") THEN NULL ELSE v

\* PostgreSQL's cast of a text value (or NULL) to a type
CastTo(type, v) ==
  IF v = NULL THEN NULL
  ELSE CASE type = "numeric" ->
              IF v[2] \in IntText \cup DecText THEN <<"num", NumVal(v[2])>>
              ELSE Error("invalid_numeric")
         [] type = "int" ->
              IF v[2] \in IntText THEN <<"num", NumVal(v[2])>>
              ELSE Error("invalid_int")
         [] type = "timestamptz" ->
              IF v[2] \in TsText THEN <<"ts", v[2]>>
              ELSE Error("invalid_timestamp")
         [] type = "jsonb" ->
              IF v[2] \in JsonText THEN <<"json", v[2]>>
              ELSE Error("invalid_json")

\* expr.format(col=c) evaluated on a staging cell: the select expression
ApplyCast(t, c, v) ==
  LET k == Casts(t, c) IN
  CASE k = "NONE" -> v
    [] k = "CAST_NUM" -> CastTo("numeric", v)
    [] k = "NULLIF_NUM" -> CastTo("numeric", NullIfEmpty(v))
    [] k = "NULLIF_INT" -> CastTo("int", NullIfEmpty(v))
    [] k = "CAST_TS" -> CastTo("timestamptz", v)
    [] k = "NULLIF_TS" -> CastTo("timestamptz", NullIfEmpty(v))
    [] k = "NULLIF_JSON" -> CastTo("jsonb", NullIfEmpty(v))
    [] k = "ENUM" -> enum_lookup(c, v)

(***************************************************************************)
(* Sequence helpers.                                                       *)
(***************************************************************************)
Range(s) == {s[i] : i \in 1..Len(s)}

\* a local variable of the Python code: x is evaluated once, Body reads its value
Bind(x, Body(_)) == CHOOSE r \in {Body(v) : v \in {x}} : TRUE

RECURSIVE SelectIdx(_, _, _)
\* the indices i of s, in order, with P[i]
SelectIdx(n, P, i) ==
  IF i > n THEN <<>>
  ELSE (IF P[i] THEN <<i>> ELSE <<>>) \o SelectIdx(n, P, i + 1)

RECURSIVE Flatten(_)
Flatten(ss) == IF ss = <<>> THEN <<>> ELSE Head(ss) \o Flatten(Tail(ss))

IndexOf(s, x) == CHOOSE i \in 1..Len(s) : s[i] = x /\ \A j \in 1..(i - 1) : s[j] # x

(***************************************************************************)
(* CSV files and pandas.  A file is [hdr, rows]: the header names and the  *)
(* data rows, each a sequence of fields.  A DataFrame is a sequence of     *)
(* columns [name, vals]; a missing value (NaN) is the empty string, which  *)
(* is what to_csv writes for it.                                           *)
(***************************************************************************)
IsNA(tok) == tok \in {"", QEmpty}

CanonInt(tok) == IF NumVal(tok) = 1 THEN "1" ELSE "2"

FloatRepr(tok) == IF NumVal(tok) = 1 THEN "1.0" ELSE "2.0"

\* pd.read_csv's type inference on one column, followed by str() of the cell
InferColumn(vals) ==
  LET n == Len(vals)
      present == {i \in 1..n : ~IsNA(vals[i])}
  IN  IF present = {} THEN [i \in 1..n |-> ""]
      ELSE IF \A i \in present : vals[i] \in IntText \cup DecText
      THEN IF present = 1..n /\ \A i \in present : vals[i] \in IntText
           THEN [i \in 1..n |-> CanonInt(vals[i])]
           ELSE [i \in 1..n |-> IF i \in present THEN FloatRepr(vals[i]) ELSE ""]
      ELSE [i \in 1..n |-> IF i \in present THEN vals[i] ELSE ""]

\* pandas' renaming of a repeated header name: a, a.1, a.2
MangleName(hdr, i) ==
  LET k == Cardinality({j \in 1..(i - 1) : hdr[j] = hdr[i]})
  IN  IF k = 0 THEN hdr[i] ELSE hdr[i] \o "." \o ToString(k)

\* the data lines pd.read_csv parses: a blank line is skipped
\* (skip_blank_lines), and the line of a one-column file whose field is
\* empty and unquoted is blank
DataLines(f) ==
  SelectIdx(Len(f.rows), [r \in 1..Len(f.rows) |-> f.rows[r] # <<"">>], 1)

\* pd.read_csv(path): the row count and the columns
read_csv(f) ==
  Bind(DataLines(f), LAMBDA kept :
    [n |-> Len(kept),
     cols |-> [i \in 1..Len(f.hdr) |->
       [name |-> MangleName(f.hdr, i),
        vals |-> InferColumn([r \in 1..Len(kept) |-> f.rows[kept[r]][i]])]]])

DfNames(df) == [i \in 1..Len(df.cols) |-> df.cols[i].name]

\* df[labels]: every column carrying each label, label by label
DfSelect(df, labels) ==
  [n |-> df.n,
   cols |-> Flatten([k \in 1..Len(labels) |->
     LET m == Len(df.cols)
         hit == SelectIdx(m, [i \in 1..m |-> df.cols[i].name = labels[k]], 1)
     IN  [j \in 1..Len(hit) |-> df.cols[hit[j]]]])]

\* df[c] = value, for a column name c the frame does not have yet
DfAppend(df, c, value) ==
  [n |-> df.n,
   cols |-> Append(df.cols, [name |-> c, vals |-> [r \in 1..df.n |-> value]])]

\* df.to_csv(tmp, index=False)
to_csv(frame) ==
  Bind(frame, LAMBDA df :
    [exists |-> TRUE,
     hdr |-> DfNames(df),
     rows |-> [r \in 1..df.n |-> [i \in 1..Len(df.cols) |-> df.cols[i].vals[r]]]])

(***************************************************************************)
(* import_roads: the alias table and the column normalisation.             *)
(***************************************************************************)
Drop == "<drop>"

AliasNames ==
  {"segment", "segmentID", "seg_id", "road", "roadID", "road_name", "name",
   "from_latitude", "from_longitude", "to_latitude", "to_longitude",
   "length_meters", "length", "speed_limit", "one_way", "city", "muni",
   "state", "prov"}

alias(c) ==
  CASE c \in {"segment", "segmentID", "seg_id"} -> "segment_id"
    [] c \in {"road", "roadID"} -> "road_id"
    [] c \in {"road_name", "name"} -> Drop
    [] c = "from_latitude" -> "from_lat"
    [] c = "from_longitude" -> "from_lon"
    [] c = "to_latitude" -> "to_lat"
    [] c = "to_longitude" -> "to_lon"
    [] c \in {"length_meters", "length"} -> "length_m"
    [] c = "speed_limit" -> "speed_limit_kph"
    [] c = "one_way" -> "oneway"
    [] c \in {"city", "muni"} -> "municipality"
    [] c \in {"state", "prov"} -> "province"

\* variant: rename_map is empty, no header is renamed
Rename_Nothing(df) == df

\* df.rename(columns=rename_map)
Rename(df) ==
  [n |-> df.n,
   cols |-> [i \in 1..Len(df.cols) |->
     LET c == df.cols[i].name
     IN  [name |-> IF c \in AliasNames /\ alias(c) # Drop THEN alias(c) ELSE c,
          vals |-> df.cols[i].vals]]]

RECURSIVE FillMissing_Default(_, _, _)
\* variant: a missing column is filled with the value 1 instead of ""
FillMissing_Default(frame, cols, i) ==
  IF i > Len(cols) THEN frame
  ELSE IF cols[i] \in Range(DfNames(frame)) THEN FillMissing_Default(frame, cols, i + 1)
  ELSE FillMissing_Default(DfAppend(frame, cols[i], "1"), cols, i + 1)

RECURSIVE FillMissing(_, _, _)
\* for c in cols: if c not in df.columns: df[c] = ""
FillMissing(frame, cols, i) ==
  Bind(frame, LAMBDA df :
    IF i > Len(cols) THEN df
    ELSE IF cols[i] \in Range(DfNames(df)) THEN FillMissing(df, cols, i + 1)
    ELSE FillMissing(DfAppend(df, cols[i], ""), cols, i + 1))

\* the frame import_roads writes to its temporary CSV
NormalizeRoads(f) ==
  LET cols == Cols("roads") IN
  Bind(Rename(read_csv(f)), LAMBDA df1 :
  Bind(DfNames(df1), LAMBDA names :
  Bind(SelectIdx(Len(names), [i \in 1..Len(names) |-> names[i] \in Range(cols)], 1),
       LAMBDA kept :
  Bind(DfSelect(df1, [j \in 1..Len(kept) |-> names[kept[j]]]), LAMBDA df2 :
  Bind(FillMissing(df2, cols, 1), LAMBDA df3 :
  DfSelect(df3, cols))))))

(***************************************************************************)
(* ensure_json.  Python's string operations work on characters, so a text  *)
(* is taken apart into a sequence of one-character strings first.          *)
(***************************************************************************)
Chars(s) ==
  CASE s = "" -> <<>>
    [] s = "[]" -> <<"[", "]">>
    [] s = "{}" -> <<"{", "}">>
    [] s = "A,B,C" -> <<"A", ",", "B", ",", "C">>
    [] s = " A , B " -> <<" ", "A", " ", ",", " ", "B", " ">>
    [] s = "A,,B" -> <<"A", ",", ",", "B">>
    [] s = "[\"X\"]" -> <<"[", "\"", "X", "\"", "]">>
    [] s = "[\"A\",\"B\",\"C\"]" ->
         <<"[", "\"", "A", "\"", ",", "\"", "B", "\"", ",", "\"", "C", "\"", "]">>
    [] s = "[A" -> <<"[", "A">>
    [] s = "[A]" -> <<"[", "A", "]">>
    [] s = "{A}" -> <<"{", "A", "}">>
    [] s = "1.0" -> <<"1", ".", "0">>
    [] s = "2.0" -> <<"2", ".", "0">>
    [] OTHER -> <<s>>

RECURSIVE Str(_)
Str(cs) == IF cs = <<>> THEN "" ELSE Head(cs) \o Str(Tail(cs))

RECURSIVE LStrip(_)
LStrip(cs) == IF cs # <<>> /\ Head(cs) = " " THEN LStrip(Tail(cs)) ELSE cs

RECURSIVE RStrip(_)
RStrip(cs) ==
  IF cs # <<>> /\ cs[Len(cs)] = " " THEN RStrip(SubSeq(cs, 1, Len(cs) - 1)) ELSE cs

\* str.strip()
Strip(cs) == RStrip(LStrip(cs))

StartsWith(cs, ch) == cs # <<>> /\ Head(cs) = ch

EndsWith(cs, ch) == cs # <<>> /\ cs[Len(cs)] = ch

RECURSIVE Split(_, _)
\* str.split(sep): the pieces between the separators, empty pieces included
Split(cs, sep) ==
  IF \A i \in 1..Len(cs) : cs[i] # sep THEN <<cs>>
  ELSE LET i == CHOOSE k \in 1..Len(cs) :
                  cs[k] = sep /\ \A j \in 1..(k - 1) : cs[j] # sep
       IN  <<SubSeq(cs, 1, i - 1)>> \o Split(SubSeq(cs, i + 1, Len(cs)), sep)

RECURSIVE JsonEscape(_)
JsonEscape(cs) ==
  IF cs = <<>> THEN <<>>
  ELSE (IF Head(cs) \in {"\"", "\\"} THEN <<"\\", Head(cs)>> ELSE <<Head(cs)>>)
       \o JsonEscape(Tail(cs))

RECURSIVE JoinItems_Compact(_)
\* variant: json.dumps with separators=(",", ":")
JoinItems_Compact(items) ==
  IF items = <<>> THEN <<>>
  ELSE <<"\"">> \o JsonEscape(Head(items)) \o <<"\"">>
       \o (IF Len(items) > 1 THEN <<",">> ELSE <<>>)
       \o JoinItems_Compact(Tail(items))

RECURSIVE JoinItems(_)
JoinItems(items) ==
  IF items = <<>> THEN <<>>
  ELSE <<"\"">> \o JsonEscape(Head(items)) \o <<"\"">>
       \o (IF Len(items) > 1 THEN <<",", " ">> ELSE <<>>)
       \o JoinItems(Tail(items))

\* json.dumps of a list of strings, with Python's default separators
dumps(items) == <<"[">> \o JoinItems(items) \o <<"]">>

RECURSIVE JoinPairs(_)
JoinPairs(pairs) ==
  IF pairs = <<>> THEN <<>>
  ELSE <<"\"">> \o JsonEscape(Head(pairs)[1]) \o <<"\"", ":", " ", "\"">>
       \o JsonEscape(Head(pairs)[2]) \o <<"\"">>
       \o (IF Len(pairs) > 1 THEN <<",", " ">> ELSE <<>>)
       \o JoinPairs(Tail(pairs))

\* json.dumps of a dict of strings to strings
dumps_dict(pairs) == <<"{">> \o JoinPairs(pairs) \o <<"}">>

\* the values a cell of the series can hold: NaN, a str, a list or a dict
NaN == <<"nan">>

PyStr(cs) == <<"str", cs>>

PyList(items) == <<"list", items>>

PyDict(pairs) == <<"dict", pairs>>

\* one value of the series through fillna("[]") and ensure_json's loop body
ensure_json_value(x) ==
  LET v == IF x = NaN THEN PyStr(<<"[", "]">>) ELSE x
  IN  IF v[1] = "list" THEN dumps(v[2])
      ELSE IF v[1] = "dict" THEN dumps_dict(v[2])
      ELSE LET s == Strip(v[2])
           IN  IF (StartsWith(s, "[") /\ EndsWith(s, "]"))
                  \/ (StartsWith(s, "{") /\ EndsWith(s, "}"))
               THEN s
               ELSE IF s = <<>> THEN <<"[", "]">>
               ELSE LET parts == Split(s, ",")
                        kept == SelectIdx(Len(parts),
                                  [i \in 1..Len(parts) |-> Strip(parts[i]) # <<>>], 1)
                    IN  dumps([j \in 1..Len(kept) |-> Strip(parts[kept[j]])])

\* ensure_json on a cell of the frame pd.read_csv returned: an empty cell is NaN
ensure_json(v) ==
  Str(ensure_json_value(IF v = "" THEN NaN ELSE PyStr(Chars(v))))

\* import_assignments, lines 377-382: the frame written to the temporary CSV
CoerceAssignments(f) ==
  Bind(read_csv(f), LAMBDA df :
    [n |-> df.n,
     cols |-> [i \in 1..Len(df.cols) |->
       IF df.cols[i].name = "route_segments"
       THEN [name |-> "route_segments",
             vals |-> [r \in 1..df.n |-> ensure_json(df.cols[i].vals[r])]]
       ELSE df.cols[i]]])

(***************************************************************************)
(* The database.  A staging row maps each column of cols to NULL or text;  *)
(* a target row maps it to a typed value.  A target table is a set of rows *)
(* with a unique constraint on its key columns.                            *)
(***************************************************************************)
NoErr == "no_error"

NoError == [kind |-> "none", stmt |-> "none", cause |-> NoErr]

\* a staging table with these rows
Staged(rows) == [exists |-> TRUE, hdr |-> <<>>, rows |-> rows]

\* COPY ... WITH (FORMAT csv): an unquoted empty field is NULL
CopyCell(tok) ==
  IF tok = "" THEN NULL ELSE IF tok = QEmpty THEN Text("") ELSE Text(tok)

\* COPY tmp (cols) FROM STDIN WITH (FORMAT csv, HEADER true): the header line
\* is skipped and each data line must have exactly one field per column
CopyFails(t, f) == \E r \in 1..Len(f.rows) : Len(f.rows[r]) # Len(Cols(t))

\* variant: COPY leaves out the lines with a field its column's cast rejects
CopyRows_TypeChecked(t, f) ==
  LET ok == SelectIdx(Len(f.rows),
              [r \in 1..Len(f.rows) |->
                 \A c \in ColSet(t) :
                    ~IsError(ApplyCast(t, c, CopyCell(f.rows[r][IndexOf(Cols(t), c)])))],
              1)
  IN  [j \in 1..Len(ok) |->
         [c \in ColSet(t) |-> CopyCell(f.rows[ok[j]][IndexOf(Cols(t), c)])]]

\* variant: COPY matches the file's fields to the columns by header name
CopyRows_ByHeader(t, f) ==
  [r \in 1..Len(f.rows) |->
     [c \in ColSet(t) |-> CopyCell(f.rows[r][IndexOf(f.hdr, c)])]]

CopyRows(t, f) ==
  [r \in 1..Len(f.rows) |->
     [c \in ColSet(t) |-> CopyCell(f.rows[r][IndexOf(Cols(t), c)])]]

\* SELECT <select_sql> FROM tmp, for one staging row
SelectRow(t, srow) == [c \in ColSet(t) |-> ApplyCast(t, c, srow[c])]

KeyOf(t, row) == [i \in 1..Len(KeyCols(t)) |-> row[KeyCols(t)[i]]]

Keys(t, rows) == {KeyOf(t, r) : r \in rows}

RECURSIVE InsertRows_Overwrite(_, _, _, _)
\* variant: ON CONFLICT DO UPDATE, the existing row is replaced
InsertRows_Overwrite(t, table, rows, on_conflict) ==
  IF rows = <<>> THEN [cause |-> NoErr, table |-> table]
  ELSE LET k == KeyOf(t, Head(rows))
           others == {r \in table : KeyOf(t, r) # k}
       IN  IF k \in Keys(t, table) /\ ~on_conflict
           THEN [cause |-> "unique_violation", table |-> table]
           ELSE InsertRows_Overwrite(t, others \cup {Head(rows)}, Tail(rows), on_conflict)

RECURSIVE InsertRows_AlwaysSkips(_, _, _, _)
\* variant: a row whose key exists is skipped whether or not on_conflict is set
InsertRows_AlwaysSkips(t, table, rows, on_conflict) ==
  IF rows = <<>> THEN [cause |-> NoErr, table |-> table]
  ELSE IF KeyOf(t, Head(rows)) \in Keys(t, table)
       THEN InsertRows_AlwaysSkips(t, table, Tail(rows), on_conflict)
       ELSE InsertRows_AlwaysSkips(t, table \cup {Head(rows)}, Tail(rows), on_conflict)

\* a key column of the row is NULL
NullKey(t, row) == \E i \in 1..Len(KeyCols(t)) : row[KeyCols(t)[i]] = NULL

\* a table is a set of rows with distinct keys; rows with a NULL key may be
\* equal in every column, and the n-th such row carries n in the field "#"
Numbered(t, table, row) ==
  LET same == {r \in table : \A c \in ColSet(t) : r[c] = row[c]}
  IN  [c \in ColSet(t) \cup {"#"} |-> IF c = "#" THEN Cardinality(same) + 1 ELSE row[c]]

RECURSIVE InsertRows(_, _, _, _)
\* INSERT INTO target SELECT ...: the rows in order against the constraint
\* on the key columns; with on_conflict a row whose key exists is skipped.
\* A NULL in a key column is rejected by a PRIMARY KEY and is equal to no
\* key under a UNIQUE constraint
InsertRows(t, table, rows, on_conflict) ==
  IF rows = <<>> THEN [cause |-> NoErr, table |-> table]
  ELSE IF NullKey(t, Head(rows))
       THEN IF env.keyNotNull THEN [cause |-> "not_null_violation", table |-> table]
            ELSE InsertRows(t, table \cup {Numbered(t, table, Head(rows))}, Tail(rows),
                            on_conflict)
  ELSE IF KeyOf(t, Head(rows)) \in Keys(t, table)
       THEN IF on_conflict THEN InsertRows(t, table, Tail(rows), on_conflict)
            ELSE [cause |-> "unique_violation", table |-> table]
       ELSE InsertRows(t, table \cup {Head(rows)}, Tail(rows), on_conflict)

\* Python's None, the default of copy_with_temp's key_cols
None == <<"None">>

\* line 89: the truth value of key_cols in "if upsert and key_cols"
Truthy(key_cols) == key_cols \notin {None, <<>>}

\* the select list is evaluated left to right: the leftmost column of cols
\* whose expression fails on the staging row, or 0
FirstError(t, srow) ==
  LET bad == {i \in 1..Len(Cols(t)) : IsError(ApplyCast(t, Cols(t)[i], srow[Cols(t)[i]]))}
  IN  IF bad = {} THEN 0 ELSE CHOOSE i \in bad : \A j \in bad : i <= j

RECURSIVE InsertStaged(_, _, _, _)
\* INSERT INTO target SELECT <select_sql> FROM tmp, row by row: the row's
\* select expressions are evaluated, then the row is inserted against the
\* unique constraint; the first failure ends the statement
InsertStaged(t, table, staged, on_conflict) ==
  IF staged = <<>> THEN [cause |-> NoErr, table |-> table]
  ELSE Bind(FirstError(t, Head(staged)), LAMBDA e :
         IF e # 0
         THEN [cause |-> ApplyCast(t, Cols(t)[e], Head(staged)[Cols(t)[e]])[2],
               table |-> table]
         ELSE Bind(InsertRows(t, table, <<SelectRow(t, Head(staged))>>, on_conflict),
                LAMBDA res :
                  IF res.cause # NoErr THEN res
                  ELSE InsertStaged(t, res.table, Tail(staged), on_conflict)))

\* the outcome of a statement: a failed statement leaves the table as it was
Statement(table, res) ==
  IF res.cause = NoErr THEN res ELSE [cause |-> res.cause, table |-> table]

\* variant: a row with a failing cast is left out instead of failing the statement
InsertSelect_SkipsBadRows(t, table, staged, upsert, key_cols) ==
  LET ok == SelectIdx(Len(staged),
              [r \in 1..Len(staged) |-> FirstError(t, staged[r]) = 0], 1)
  IN  Statement(table, InsertStaged(t, table, [j \in 1..Len(ok) |-> staged[ok[j]]],
                                    upsert /\ Truthy(key_cols)))

\* variant: in place of ON CONFLICT, the rows whose key the table holds before
\* the statement are filtered out and the others are inserted plainly
InsertSelect_ExistingOnly(t, table, staged, upsert, key_cols) ==
  LET fresh == SelectIdx(Len(staged),
                 [r \in 1..Len(staged) |->
                    \/ ~(upsert /\ Truthy(key_cols))
                    \/ KeyOf(t, staged[r]) \notin Keys(t, table)], 1)
  IN  Statement(table, InsertStaged(t, table, [j \in 1..Len(fresh) |-> staged[fresh[j]]],
                                    FALSE))

\* variant: the conflict clause is added whenever upsert is true
InsertSelect_UpsertAlone(t, table, staged, upsert, key_cols) ==
  Statement(table, InsertStaged(t, table, staged, upsert))

\* the INSERT statement of copy_with_temp on the table as the transaction
\* sees it: the new table, or the cause that fails the statement as a whole
InsertSelect(t, table, staged, upsert, key_cols) ==
  Statement(table, InsertStaged(t, table, staged, upsert /\ Truthy(key_cols)))

\* nothing tested and nothing inserted yet
NoOps ==
  [checks |-> [t \in TableNames |-> 0], inserts |-> [t \in TableNames |-> 0]]

\* incidents_feeder.py is not running
FeederOff ==
  [pc |-> "off", roads |-> {}, payload |-> <<>>, i |-> 1, rows |-> {}, ticks |-> 0,
   cause |-> NoErr]

\* no transaction is open; at and part are the progress of an INSERT that
\* has been sent and has not returned: the staging rows it is through with
\* and the rows it has inserted
NoTx ==
  [open |-> FALSE,
   target |-> [t \in TableNames |-> {}],
   staging |-> [t \in TableNames |-> Absent],
   at |-> 0,
   part |-> {}]

\* BEGIN: the transaction works on its own view of the database
BeginTx(d) ==
  [open |-> TRUE, target |-> d.target, staging |-> d.staging, at |-> 0, part |-> {}]

\* what COMMIT leaves in the database
Committed(x) == [target |-> x.target, staging |-> x.staging]

(***************************************************************************)
(* The inputs of the model: the CSV files of the data directory and the    *)
(* rows the database holds before the first run.                           *)
(***************************************************************************)
KeyToks == {"k1", "k2"}

\* a column of each table whose values tell rows with the same key apart
PayloadCol(t) ==
  CASE t = "roads" -> "lanes"
    [] t = "truck_profiles" -> "hazmat"
    [] t = "deliveries" -> "per_km_cost_rand"
    [] t = "assignments" -> "planned_duration_min"
    [] t = "historical_speeds" -> "vehicle_count"
    [] t = "incidents" -> "severity"
    [] t = "weather" -> "wind_kph"

NoCol == "<none>"

\* the enum-typed column of each table
EnumCol(t) ==
  CASE t = "roads" -> "road_type"
    [] t = "deliveries" -> "priority"
    [] t = "assignments" -> "status"
    [] t = "incidents" -> "type"
    [] t = "weather" -> "wx_condition"
    [] OTHER -> NoCol

DefaultEnum(c) ==
  CASE c = "type" -> "accident"
    [] c = "road_type" -> "motorway"
    [] c = "wx_condition" -> "clear"
    [] c = "priority" -> "low"
    [] c = "status" -> "planned"

\* a well-formed field for a column
DefaultTok(t, c) ==
  LET k == Casts(t, c) IN
  CASE k \in {"CAST_NUM", "NULLIF_NUM", "NULLIF_INT"} -> "1"
    [] k \in {"CAST_TS", "NULLIF_TS"} -> "2025-06-01"
    [] k = "NULLIF_JSON" -> "[]"
    [] k = "ENUM" -> DefaultEnum(c)
    [] OTHER -> "a"

\* a data line in canonical column order: key k, field tok in column c
MkRow(t, k, c, tok) ==
  [i \in 1..Len(Cols(t)) |->
     IF Cols(t)[i] = KeyCols(t)[1] THEN k
     ELSE IF Cols(t)[i] = c THEN tok
     ELSE DefaultTok(t, Cols(t)[i])]

MkFile(t, rows) == [exists |-> TRUE, hdr |-> Cols(t), rows |-> rows]

RowChoices(t) ==
  {MkRow(t, k, PayloadCol(t), p) : k \in KeyToks, p \in {"1", "2"}}
  \cup {MkRow(t, "k1", PayloadCol(t), "x")}
  \cup (IF EnumCol(t) = NoCol THEN {} ELSE {MkRow(t, "k1", EnumCol(t), "zz")})

SeqsUpTo(S, n) == UNION {[1..k -> S] : k \in 0..n}

GoodFile(t) ==
  MkFile(t, <<MkRow(t, "k1", PayloadCol(t), "1"), MkRow(t, "k2", PayloadCol(t), "1")>>)

\* the row a table holds before the first run, and a row left in a staging table
PreRow(t) ==
  SelectRow(t, CopyRows(t, MkFile(t, <<MkRow(t, "k1", PayloadCol(t), "2")>>))[1])

LeftoverRow(t) == CopyRows(t, MkFile(t, <<MkRow(t, "k9", PayloadCol(t), "1")>>))[1]

\* every set of absent files, the files present well-formed
SubsetDirs == [TableNames -> {0, 1}]

InitDb(preloaded, leftover) ==
  [target |-> [t \in TableNames |-> IF preloaded THEN {PreRow(t)} ELSE {}],
   staging |-> [t \in TableNames |-> IF leftover THEN Staged(<<LeftoverRow(t)>>) ELSE Absent]]

InitCommon ==
  /\ tx = NoTx
  /\ pc \in {"start", "call"}
  /\ idx = 1
  /\ csv = "none"
  /\ tmpCsv = [t \in {"roads", "assignments"} |-> <<>>]
  /\ log = <<>>
  /\ err = NoError
  /\ pre = db
  /\ last = [status |-> "none", target |-> db.target]
  /\ loaded = [t \in TableNames |-> {}]
  /\ ops = NoOps

\* the schema makes the key columns a PRIMARY KEY (keyNotNull) or a UNIQUE
\* constraint, and the text of DATA_DIR holds "tmp" (tmpInPath) or not: here
\* a PRIMARY KEY and a DATA_DIR such as ./data
PlainEnv == [keyNotNull |-> TRUE, tmpInPath |-> FALSE]

\* a run of main: no function is called on its own
InitRun ==
  /\ InitCommon
  /\ pc = "start"
  /\ call = NoCall
  /\ ret = NoCall
  /\ feeder = FeederOff

Init ==
  /\ \E preloaded, leftover \in BOOLEAN : db = InitDb(preloaded, leftover)
  /\ \/ /\ dataDir = FALSE
        /\ files = [t \in TableNames |-> Absent]
     \/ /\ dataDir = TRUE
        /\ \E d \in SubsetDirs :
              files = [t \in TableNames |-> IF d[t] = 1 THEN GoodFile(t) ELSE Absent]
     \/ /\ dataDir = TRUE
        /\ \E f \in TableNames : \E rows \in SeqsUpTo(RowChoices(f), MaxRows) :
              files = [t \in TableNames |->
                         IF t = f THEN MkFile(t, rows) ELSE GoodFile(t)]
  /\ env = PlainEnv
  /\ InitRun

(***************************************************************************)
(* main(): the data directory check, the transaction and the for loop.     *)
(***************************************************************************)
Cur == steps[idx]

\* file_in(data_dir, name + ".csv") is not None
file_in(t) == files[t].exists

DbError(t, cause) == [kind |-> "DBAPIError", stmt |-> t, cause |-> cause]

\* line 423-424: DATA_DIR does not exist, SystemExit
Fatal ==
  /\ pc = "start"
  /\ ~dataDir
  /\ pc' = "fatal"
  /\ err' = [kind |-> "SystemExit", stmt |-> "none", cause |-> "DATA_DIR not found"]
  /\ pre' = db
  /\ UNCHANGED <<dataDir, env, files, db, tx, idx, csv, tmpCsv, log, last, loaded, call, ret, feeder, ops>>

\* variant: the transaction is opened without the DATA_DIR check
Begin_NoDirCheck ==
  /\ pc = "start"
  /\ tx' = BeginTx(db)
  /\ loaded' = [t \in TableNames |-> {}]
  /\ idx' = 1
  /\ pc' = "loop"
  /\ pre' = db
  /\ ops' = NoOps
  /\ UNCHANGED <<dataDir, env, files, db, csv, tmpCsv, log, err, last, call, ret, feeder>>

\* line 426-428: eng.begin() opens the one transaction of the run
Begin ==
  /\ pc = "start"
  /\ dataDir
  /\ tx' = BeginTx(db)
  /\ loaded' = [t \in TableNames |-> {}]
  /\ idx' = 1
  /\ pc' = "loop"
  /\ pre' = db
  /\ ops' = NoOps
  /\ UNCHANGED <<dataDir, env, files, db, csv, tmpCsv, log, err, last, call, ret, feeder>>

\* variant: the importer is called without the line being printed
LoopImport_Silent ==
  /\ pc = "loop"
  /\ idx <= Len(steps)
  /\ file_in(Cur)
  /\ pc' = "importer"
  /\ ops' = [ops EXCEPT !.checks[Cur] = @ + 1]
  /\ UNCHANGED <<dataDir, env, files, db, tx, idx, csv, tmpCsv, log, err, pre, last, loaded, call, ret, feeder>>

\* line 441-444: the file is there, the importer is called
LoopImport ==
  /\ pc = "loop"
  /\ idx <= Len(steps)
  /\ file_in(Cur)
  /\ log' = Append(log, <<"importing", Cur>>)
  /\ pc' = "importer"
  /\ ops' = [ops EXCEPT !.checks[Cur] = @ + 1]
  /\ UNCHANGED <<dataDir, env, files, db, tx, idx, csv, tmpCsv, err, pre, last, loaded, call, ret, feeder>>

\* variant: an absent file is an error
LoopSkip_Raises ==
  /\ pc = "loop"
  /\ idx <= Len(steps)
  /\ ~file_in(Cur)
  /\ err' = [kind |-> "FileNotFoundError", stmt |-> "none", cause |-> "open"]
  /\ pc' = "raising"
  /\ ops' = [ops EXCEPT !.checks[Cur] = @ + 1]
  /\ UNCHANGED <<dataDir, env, files, db, tx, idx, csv, tmpCsv, log, pre, last, loaded, call, ret, feeder>>

\* line 445-446: the file is absent, the table is skipped
LoopSkip ==
  /\ pc = "loop"
  /\ idx <= Len(steps)
  /\ ~file_in(Cur)
  /\ log' = Append(log, <<"skipped", Cur>>)
  /\ idx' = idx + 1
  /\ ops' = [ops EXCEPT !.checks[Cur] = @ + 1]
  /\ UNCHANGED <<dataDir, env, files, db, tx, pc, csv, tmpCsv, err, pre, last, loaded, call, ret, feeder>>

\* line 427/446: the with block ends after the last step: COMMIT, the
\* transaction's locks are released
Commit ==
  /\ pc = "loop"
  /\ idx > Len(steps)
  /\ db' = Committed(tx)
  /\ tx' = NoTx
  /\ pc' = "committed"
  /\ UNCHANGED <<dataDir, env, files, idx, csv, tmpCsv, log, err, pre, last, loaded, call, ret, feeder, ops>>

\* line 448: print("Import finished."), after the transaction has ended
Finish ==
  /\ pc = "committed"
  /\ log' = Append(log, <<"finished">>)
  /\ pc' = "done"
  /\ UNCHANGED <<dataDir, env, files, db, tx, idx, csv, tmpCsv, err, pre, last, loaded, call, ret, feeder, ops>>

\* variant: the with block commits what was done before the exception
Rollback_Commits ==
  /\ pc = "rollback"
  /\ db' = Committed(tx)
  /\ tx' = NoTx
  /\ pc' = "aborted"
  /\ UNCHANGED <<dataDir, env, files, idx, csv, tmpCsv, log, err, pre, last, loaded, call, ret, feeder, ops>>

\* line 427: an exception leaves the with block, ROLLBACK, the process dies
Rollback ==
  /\ pc = "rollback"
  /\ tx' = NoTx
  /\ pc' = "aborted"
  /\ UNCHANGED <<dataDir, env, files, db, idx, csv, tmpCsv, log, err, pre, last, loaded, call, ret, feeder, ops>>

\* the script is started again
Restart ==
  /\ pc \in {"done", "aborted", "fatal"}
  /\ Len(tmpCsv["assignments"]) < MaxLeaked
  /\ \A t \in TableNames :
        Cardinality({r \in db.target[t] : NullKey(t, r)}) < MaxNullKeys
  /\ last' = [status |-> pc, target |-> db.target]
  /\ pc' = "start"
  /\ idx' = 1
  /\ csv' = "none"
  /\ log' = <<>>
  /\ err' = NoError
  /\ UNCHANGED <<dataDir, env, files, db, tx, tmpCsv, pre, loaded, call, ret, feeder, ops>>

(***************************************************************************)
(* The importers import_<table>() and copy_with_temp().                    *)
(***************************************************************************)
\* the importers that read the source file with pd.read_csv before copy_with_temp
Readers == {"roads", "assignments"}

\* the importer's own file_in: it returns when the file is not there; the
\* importers that do not read the file pass the source path to copy_with_temp
ImporterOpen ==
  /\ pc = "importer"
  /\ IF ~file_in(Cur)
     THEN /\ pc' = "loop"
          /\ idx' = idx + 1
          /\ UNCHANGED csv
     ELSE /\ pc' = IF Cur \in Readers THEN "read" ELSE "drop_old"
          /\ idx' = idx
          /\ csv' = IF Cur \in Readers THEN csv ELSE "src"
  /\ ops' = [ops EXCEPT !.checks[Cur] = @ + 1]
  /\ UNCHANGED <<dataDir, env, files, db, tx, tmpCsv, log, err, pre, last, loaded, call, ret,
                 feeder>>

\* line 139, 142-183 and 377-381: pd.read_csv raises when the file is gone;
\* import_roads normalises the frame into a new temporary CSV,
\* import_assignments coerces route_segments into one when the frame has
\* that column and passes the source path when it has not
ImporterRead ==
  /\ pc = "read"
  /\ IF ~files[Cur].exists
     THEN /\ err' = [kind |-> "FileNotFoundError", stmt |-> "none", cause |-> "read_csv"]
          /\ pc' = "raising"
          /\ UNCHANGED <<csv, tmpCsv>>
     ELSE /\ pc' = "drop_old"
          /\ UNCHANGED err
          /\ IF Cur = "roads"
             THEN /\ tmpCsv' = [tmpCsv EXCEPT !["roads"] =
                                   Append(@, to_csv(NormalizeRoads(files[Cur])))]
                  /\ csv' = "tmp"
             ELSE IF "route_segments" \in Range(DfNames(read_csv(files[Cur])))
             THEN /\ tmpCsv' = [tmpCsv EXCEPT !["assignments"] =
                                   Append(@, to_csv(CoerceAssignments(files[Cur])))]
                  /\ csv' = "tmp"
             ELSE /\ csv' = "src"
                  /\ UNCHANGED tmpCsv
  /\ UNCHANGED <<dataDir, env, files, db, tx, idx, log, pre, last, loaded, call, ret, feeder,
                 ops>>

\* variant: a staging table that is already there is used as it is
DropOld_KeepsTable ==
  /\ pc = "drop_old"
  /\ pc' = IF tx.staging[Cur].exists THEN "copy" ELSE "create"
  /\ UNCHANGED <<dataDir, env, files, db, tx, idx, csv, tmpCsv, log, err, pre, last, loaded, call,
                 ret, feeder, ops>>

\* line 70: DROP TABLE IF EXISTS tmp
DropOld ==
  /\ pc = "drop_old"
  /\ tx' = [tx EXCEPT !.staging[Cur] = Absent]
  /\ pc' = "create"
  /\ UNCHANGED <<dataDir, env, files, db, idx, csv, tmpCsv, log, err, pre, last, loaded, call, ret, feeder, ops>>

\* variant: the first import creates the staging tables of all tables at once
Create_AllAtOnce ==
  /\ pc = "create"
  /\ tx' = [tx EXCEPT !.staging = [t \in TableNames |->
                                      IF t = Cur \/ idx = 1 THEN Staged(<<>>) ELSE @[t]]]
  /\ pc' = "copy"
  /\ UNCHANGED <<dataDir, env, files, db, idx, csv, tmpCsv, log, err, pre, last, loaded, call, ret,
                 feeder, ops>>

\* line 71-72: CREATE TABLE tmp (c TEXT, ...)
Create ==
  /\ pc = "create"
  /\ tx' = [tx EXCEPT !.staging[Cur] = Staged(<<>>)]
  /\ pc' = "copy"
  /\ UNCHANGED <<dataDir, env, files, db, idx, csv, tmpCsv, log, err, pre, last, loaded, call, ret, feeder, ops>>

\* the temporary CSV the importer of t made last, while it exists
TmpFile(t) == IF tmpCsv[t] = <<>> THEN Absent ELSE tmpCsv[t][Len(tmpCsv[t])]

\* the file open(csv_path) finds
CsvFile == IF csv = "tmp" THEN TmpFile(Cur) ELSE files[Cur]

\* line 75-79: open the CSV and COPY it into the staging table, after the
\* rows the table holds
Copy ==
  /\ pc = "copy"
  /\ IF ~CsvFile.exists
     THEN /\ err' = [kind |-> "FileNotFoundError", stmt |-> "none", cause |-> "open"]
          /\ pc' = "raising"
          /\ UNCHANGED tx
     ELSE IF CopyFails(Cur, CsvFile)
     THEN /\ err' = DbError(Cur, "copy_column_count")
          /\ pc' = "raising"
          /\ UNCHANGED tx
     ELSE /\ tx' = [tx EXCEPT !.staging[Cur] = Staged(@.rows \o CopyRows(Cur, CsvFile))]
          /\ pc' = "insert"
          /\ UNCHANGED err
  /\ UNCHANGED <<dataDir, env, files, db, idx, csv, tmpCsv, log, pre, last, loaded, call, ret, feeder, ops>>

\* the staging rows the INSERT has still to work on; the target as the
\* statement finds it holds the rows it has inserted itself, tx.part
InsertRest == SubSeq(tx.staging[Cur].rows, tx.at + 1, Len(tx.staging[Cur].rows))

\* among the rows the INSERT has still to work on, the first whose key
\* another transaction has inserted and not yet committed, when the
\* statement gets as far as inserting it: the rows before it are inserted or
\* skipped and its own select expressions are computed; 0 when there is no
\* such row
ImportWaitsAt ==
  IF Cur # "incidents" THEN 0
  ELSE LET held == {j \in 1..Len(InsertRest) :
                      KeyOf(Cur, InsertRest[j]) \in Keys(Cur, feeder.rows)}
       IN  IF held = {} THEN 0
           ELSE LET j == CHOOSE i \in held : \A k \in held : i <= k
                IN  IF /\ FirstError(Cur, InsertRest[j]) = 0
                       /\ InsertStaged(Cur, tx.target[Cur] \cup tx.part,
                                       SubSeq(InsertRest, 1, j - 1),
                                       Upsert(Cur) /\ Truthy(KeyCols(Cur))).cause = NoErr
                    THEN j ELSE 0

\* the next row of the INSERT is one whose key another transaction holds:
\* the statement waits for that transaction to end
ImportWaits == ImportWaitsAt = 1

\* line 101, conn.execute, while another transaction holds a key of a later
\* row: the INSERT works through the rows before that row and waits there
InsertUntilWait ==
  /\ pc = "insert"
  /\ ImportWaitsAt > 1
  /\ LET n == ImportWaitsAt - 1
         res == InsertStaged(Cur, tx.target[Cur] \cup tx.part, SubSeq(InsertRest, 1, n),
                             Upsert(Cur) /\ Truthy(KeyCols(Cur)))
     IN  tx' = [tx EXCEPT !.at = @ + n, !.part = res.table \ tx.target[Cur]]
  /\ UNCHANGED <<dataDir, env, files, db, pc, idx, csv, tmpCsv, log, err, pre, last, loaded,
                 call, ret, feeder, ops>>

\* line 82-101: the INSERT ... SELECT with casts, ON CONFLICT DO NOTHING when
\* upsert and key_cols, from the row it is at to its end
Insert ==
  /\ pc = "insert"
  /\ ImportWaitsAt = 0
  /\ LET res == InsertSelect(Cur, tx.target[Cur] \cup tx.part, InsertRest,
                             Upsert(Cur), KeyCols(Cur))
     IN  IF res.cause # NoErr
         THEN /\ err' = DbError(Cur, res.cause)
              /\ pc' = "raising"
              /\ tx' = [tx EXCEPT !.at = 0, !.part = {}]
              /\ UNCHANGED loaded
         ELSE /\ tx' = [tx EXCEPT !.target[Cur] = res.table, !.at = 0, !.part = {}]
              /\ loaded' = [loaded EXCEPT ![Cur] = res.table \ tx.target[Cur]]
              /\ pc' = "drop_new"
              /\ UNCHANGED err
  /\ ops' = [ops EXCEPT !.inserts[Cur] = @ + 1]
  /\ UNCHANGED <<dataDir, env, files, db, idx, csv, tmpCsv, log, pre, last, call, ret, feeder>>

\* variant: copy_with_temp returns without the final DROP
DropNew_Skipped ==
  /\ pc = "drop_new"
  /\ pc' = "returned"
  /\ UNCHANGED <<dataDir, env, files, db, tx, idx, csv, tmpCsv, log, err, pre, last, loaded, call, ret, feeder, ops>>

\* line 102: DROP TABLE IF EXISTS tmp, copy_with_temp returns
DropNew ==
  /\ pc = "drop_new"
  /\ tx' = [tx EXCEPT !.staging[Cur] = Absent]
  /\ pc' = "returned"
  /\ UNCHANGED <<dataDir, env, files, db, idx, csv, tmpCsv, log, err, pre, last, loaded, call, ret, feeder, ops>>

\* variant: a failure of the final DROP is swallowed, copy_with_temp returns
DropNewFails_Swallowed ==
  /\ pc = "drop_new"
  /\ err' = DbError(Cur, "drop_failed")
  /\ pc' = "returned"
  /\ UNCHANGED <<dataDir, env, files, db, tx, idx, csv, tmpCsv, log, pre, last, loaded, call, ret, feeder, ops>>

\* line 102 when the database fails the DROP: conn.execute raises and
\* nothing in copy_with_temp catches it
DropNewFails ==
  /\ pc = "drop_new"
  /\ err' = DbError(Cur, "drop_failed")
  /\ pc' = "raising"
  /\ UNCHANGED <<dataDir, env, files, db, tx, idx, csv, tmpCsv, log, pre, last, loaded, call, ret, feeder, ops>>

\* line 414, "tmp" in str(path), for import_assignments: the temporary file's
\* name starts with mkstemp's prefix "tmp"; the source file's path holds
\* the text when the data directory's path does
TmpInPath == csv = "tmp" \/ (csv = "src" /\ env.tmpInPath)

\* variant: each importer's work is committed as the importer returns
ImporterReturn_Commits ==
  /\ pc = "returned"
  /\ tmpCsv' = IF csv = "tmp" THEN [tmpCsv EXCEPT ![Cur] = SubSeq(@, 1, Len(@) - 1)] ELSE tmpCsv
  /\ files' = IF Cur = "assignments" /\ csv = "src" /\ TmpInPath
              THEN [files EXCEPT ![Cur] = Absent] ELSE files
  /\ csv' = "none"
  /\ idx' = idx + 1
  /\ pc' = "loop"
  /\ db' = Committed(tx)
  /\ UNCHANGED <<dataDir, env, tx, log, err, pre, last, loaded, call, ret, feeder, ops>>

\* copy_with_temp returned: import_roads' finally deletes its temporary CSV;
\* import_assignments' trailing os.remove deletes the file at path, the
\* temporary CSV or the source file, when the path holds the text "tmp";
\* the importer returns
ImporterReturn ==
  /\ pc = "returned"
  /\ tmpCsv' = IF csv = "tmp" THEN [tmpCsv EXCEPT ![Cur] = SubSeq(@, 1, Len(@) - 1)] ELSE tmpCsv
  /\ files' = IF Cur = "assignments" /\ csv = "src" /\ TmpInPath
              THEN [files EXCEPT ![Cur] = Absent] ELSE files
  /\ csv' = "none"
  /\ idx' = idx + 1
  /\ pc' = "loop"
  /\ UNCHANGED <<dataDir, env, db, tx, log, err, pre, last, loaded, call, ret, feeder, ops>>

\* variant: main catches the exception and goes on with the next table
ImporterUnwind_Continues ==
  /\ pc = "raising"
  /\ tmpCsv' = IF Cur = "roads" /\ csv = "tmp"
               THEN [tmpCsv EXCEPT !["roads"] = SubSeq(@, 1, Len(@) - 1)] ELSE tmpCsv
  /\ csv' = "none"
  /\ idx' = idx + 1
  /\ pc' = "loop"
  /\ UNCHANGED <<dataDir, env, files, db, tx, log, err, pre, last, loaded, call, ret, feeder, ops>>

\* pd.read_csv or copy_with_temp raised: only import_roads has a finally
\* around copy_with_temp that deletes its temporary CSV; the exception
\* leaves the importer
ImporterUnwind ==
  /\ pc = "raising"
  /\ tmpCsv' = IF Cur = "roads" /\ csv = "tmp"
               THEN [tmpCsv EXCEPT !["roads"] = SubSeq(@, 1, Len(@) - 1)] ELSE tmpCsv
  /\ csv' = "none"
  /\ pc' = "rollback"
  /\ UNCHANGED <<dataDir, env, files, db, tx, idx, log, err, pre, last, loaded, call, ret, feeder, ops>>

Next ==
  \/ Fatal
  \/ Begin
  \/ LoopImport
  \/ LoopSkip
  \/ Commit
  \/ Finish
  \/ Rollback
  \/ Restart
  \/ ImporterOpen
  \/ ImporterRead
  \/ DropOld
  \/ Create
  \/ Copy
  \/ Insert
  \/ DropNew
  \/ ImporterReturn
  \/ ImporterUnwind

Spec == Init /\ [][Next]_vars

(***************************************************************************)
(* Runs of main that are not stopped from outside: the process is single-  *)
(* threaded and every statement it executes returns or raises, so a step   *)
(* of the run that is possible is eventually taken.  Starting the script   *)
(* again is up to the operator and is not forced.                          *)
(***************************************************************************)
RunStep ==
  \/ Fatal
  \/ Begin
  \/ LoopImport
  \/ LoopSkip
  \/ Commit
  \/ Finish
  \/ Rollback
  \/ ImporterOpen
  \/ ImporterRead
  \/ DropOld
  \/ Create
  \/ Copy
  \/ Insert
  \/ DropNew
  \/ ImporterReturn
  \/ ImporterUnwind

\* the data directory is missing, or holds any subset of the seven files,
\* all well-formed or all but one whose only data line fails a cast
InitLive ==
  /\ db = InitDb(FALSE, FALSE)
  /\ \/ /\ dataDir = FALSE
        /\ files = [t \in TableNames |-> Absent]
     \/ /\ dataDir = TRUE
        /\ \E d \in SubsetDirs : \E bad \in {0} \cup {d[t] * IndexOf(steps, t) : t \in TableNames} :
              files = [t \in TableNames |->
                         IF d[t] = 0 THEN Absent
                         ELSE IF IndexOf(steps, t) = bad
                         THEN MkFile(t, <<MkRow(t, "k1", PayloadCol(t), "x")>>)
                         ELSE GoodFile(t)]
  /\ env = PlainEnv
  /\ InitRun

SpecLive == InitLive /\ [][Next]_vars /\ WF_vars(RunStep)

(***************************************************************************)
(* Runs of main against a database that may fail the final DROP of a       *)
(* staging table.                                                          *)
(***************************************************************************)
NextDropFails ==
  \/ Next
  \/ DropNewFails

\* the data directory is missing, or holds any subset of the seven files,
\* each of them well-formed
InitGoodFiles ==
  /\ \E preloaded, leftover \in BOOLEAN : db = InitDb(preloaded, leftover)
  /\ \/ /\ dataDir = FALSE
        /\ files = [t \in TableNames |-> Absent]
     \/ /\ dataDir = TRUE
        /\ \E d \in SubsetDirs :
              files = [t \in TableNames |-> IF d[t] = 1 THEN GoodFile(t) ELSE Absent]
  /\ env = PlainEnv
  /\ InitRun

SpecDropFails == InitGoodFiles /\ [][NextDropFails]_vars

(***************************************************************************)
(* Calls of single functions of import.py on arguments drawn from bounded  *)
(* sets: ensure_json's loop body on one value, a select expression on one  *)
(* staging cell, and the INSERT statement of copy_with_temp with either    *)
(* value of upsert and key_cols.                                           *)
(***************************************************************************)
JsonAlphabet == {"A", ",", " ", "[", "]", "{", "}", "\""}

\* the texts worked out in the description of ensure_json
JsonExamples ==
  {Chars("A,B,C"), Chars(" A , B "), Chars("A,,B"), Chars("[\"X\"]"),
   Chars("[\"A\",\"B\",\"C\"]")}

JsonInputs ==
  {NaN}
  \cup {PyStr(cs) : cs \in SeqsUpTo(JsonAlphabet, MaxChars) \cup JsonExamples}
  \cup {PyList(items) : items \in SeqsUpTo({<<"A">>, <<"\"">>, <<>>}, 2)}
  \cup {PyDict(pairs) : pairs \in SeqsUpTo({<<<<"A">>, <<"]">>>>}, 1)}

CellInputs ==
  {NULL} \cup {Text(s) : s \in {"", "1", "1.0", "x", "2025-06-01", "[]"}}

\* the tables whose INSERT is called on its own
InsertTables == {"truck_profiles", "historical_speeds"}

\* the data lines of the INSERT called on its own: those of RowChoices and
\* one whose key field is empty
InsertChoices(t) == RowChoices(t) \cup {MkRow(t, "", PayloadCol(t), "1")}

InitCalls ==
  /\ dataDir = TRUE
  /\ files = [t \in TableNames |-> Absent]
  /\ db = InitDb(FALSE, FALSE)
  /\ InitCommon
  /\ pc = "call"
  /\ ret = NoCall
  /\ feeder = FeederOff
  /\ \/ \E x \in JsonInputs : call = <<"ensure_json", x>>
     \/ \E t \in TableNames : \E c \in ColSet(t) : \E v \in CellInputs :
           call = <<"select_expr", t, c, v>>
     \/ \E t \in InsertTables : \E rows \in SeqsUpTo(InsertChoices(t), MaxRows) :
        \E preloaded, upsert \in BOOLEAN : \E key_cols \in {KeyCols(t), <<>>, None} :
           call = <<"insert", t, IF preloaded THEN {PreRow(t)} ELSE {},
                    CopyRows(t, MkFile(t, rows)), upsert, key_cols>>
  /\ \E k \in BOOLEAN : env = [PlainEnv EXCEPT !.keyNotNull = k]

\* ensure_json, lines 33-45, on one value
CallEnsureJson ==
  /\ pc = "call"
  /\ call[1] = "ensure_json"
  /\ ret' = ensure_json_value(call[2])
  /\ pc' = "ret"
  /\ UNCHANGED <<dataDir, env, files, db, tx, idx, csv, tmpCsv, log, err, pre, last, loaded, call,
                 feeder, ops>>

\* copy_with_temp, lines 82-87, on one staging cell
CallSelectExpr ==
  /\ pc = "call"
  /\ call[1] = "select_expr"
  /\ ret' = ApplyCast(call[2], call[3], call[4])
  /\ pc' = "ret"
  /\ UNCHANGED <<dataDir, env, files, db, tx, idx, csv, tmpCsv, log, err, pre, last, loaded, call,
                 feeder, ops>>

\* copy_with_temp, lines 89-101, on one staging table and target table
CallInsert ==
  /\ pc = "call"
  /\ call[1] = "insert"
  /\ ret' = InsertSelect(call[2], call[3], call[4], call[5], call[6])
  /\ pc' = "ret"
  /\ UNCHANGED <<dataDir, env, files, db, tx, idx, csv, tmpCsv, log, err, pre, last, loaded, call,
                 feeder, ops>>

NextCalls ==
  \/ CallEnsureJson
  \/ CallSelectExpr
  \/ CallInsert

SpecCalls == InitCalls /\ [][NextCalls]_vars

(***************************************************************************)
(* Runs of main over roads files with freely named headers: canonical      *)
(* names, aliases, names the alias table drops and unknown names, in any   *)
(* order.  The other six files are absent.                                 *)
(***************************************************************************)
NormPool == {"segment_id", "seg_id", "province", "prov", "state", "name",
             "zzz", "lanes"}

DistinctSeqs(S, n) ==
  {s \in UNION {[1..k -> S] : k \in 1..n} :
     \A i, j \in DOMAIN s : i # j => s[i] # s[j]}

\* the field of data row r under the i-th header name
NormCell(scheme, r, i) ==
  IF scheme = "text" THEN "r" \o ToString(r) \o "c" \o ToString(i)
  ELSE IF r = 1 THEN "1" ELSE ""

NormFile(hdr, n, scheme) ==
  [exists |-> TRUE,
   hdr |-> hdr,
   rows |-> [r \in 1..n |-> [i \in 1..Len(hdr) |-> NormCell(scheme, r, i)]]]

InitNorm ==
  /\ db = InitDb(FALSE, FALSE)
  /\ \/ /\ dataDir = FALSE
        /\ files = [t \in TableNames |-> Absent]
     \/ /\ dataDir = TRUE
        /\ \E hdr \in DistinctSeqs(NormPool, MaxHdr), n \in 0..MaxRows,
              scheme \in {"text", "number"} :
              files = [t \in TableNames |->
                         IF t = "roads" THEN NormFile(hdr, n, scheme) ELSE Absent]
  /\ \E k \in BOOLEAN : env = [PlainEnv EXCEPT !.keyNotNull = k]
  /\ InitRun

SpecNorm == InitNorm /\ [][Next]_vars

(***************************************************************************)
(* Runs of main over one file whose header is the canonical column list    *)
(* with two names exchanged (or none), every field written under its own   *)
(* header name.  The other six files are absent.                           *)
(***************************************************************************)
\* the cols list of t with the names at positions i and j exchanged
SwapHdr(t, i, j) ==
  [k \in 1..Len(Cols(t)) |->
     IF k = i THEN Cols(t)[j] ELSE IF k = j THEN Cols(t)[i] ELSE Cols(t)[k]]

\* a well-formed field for column c that names its column where it is text
PermTok(t, k, c) ==
  IF c = KeyCols(t)[1] THEN k
  ELSE IF Casts(t, c) = "NONE" THEN c
  ELSE DefaultTok(t, c)

\* a file of n data lines under header hdr
PermFile(t, hdr, n) ==
  [exists |-> TRUE,
   hdr |-> hdr,
   rows |-> [r \in 1..n |->
              [i \in 1..Len(hdr) |-> PermTok(t, "k" \o ToString(r), hdr[i])]]]

InitPerm ==
  /\ db = InitDb(FALSE, FALSE)
  /\ \/ /\ dataDir = FALSE
        /\ files = [t \in TableNames |-> Absent]
     \/ /\ dataDir = TRUE
        /\ \E f \in TableNames : \E i, j \in 1..Len(Cols(f)) : \E n \in 1..MaxRows :
              /\ i <= j
              /\ files = [t \in TableNames |->
                            IF t = f THEN PermFile(t, SwapHdr(t, i, j), n) ELSE Absent]
  /\ env = PlainEnv
  /\ InitRun

SpecPerm == InitPerm /\ [][Next]_vars

(***************************************************************************)
(* Runs of main over one file whose header is the canonical column list    *)
(* without one of its names, with one more name, or with one of its        *)
(* non-key names replaced; the file has the header line alone or data      *)
(* lines with one field per header name.  The other six files are absent;  *)
(* the data directory's path holds the text "tmp" or not, and the key      *)
(* columns reject NULL (PRIMARY KEY) or not (UNIQUE).                      *)
(***************************************************************************)
\* the cols list of t without the name at position i
DropHdr(t, i) ==
  [k \in 1..(Len(Cols(t)) - 1) |-> IF k < i THEN Cols(t)[k] ELSE Cols(t)[k + 1]]

\* the cols list of t with the name "extra" put in at position i
ExtraHdr(t, i) ==
  [k \in 1..(Len(Cols(t)) + 1) |->
     IF k < i THEN Cols(t)[k] ELSE IF k = i THEN "extra" ELSE Cols(t)[k - 1]]

\* the cols list of t with the name at position i replaced by "extra"
RenameHdr(t, i) ==
  [k \in 1..Len(Cols(t)) |-> IF k = i THEN "extra" ELSE Cols(t)[k]]

\* the positions of the columns of t that are not key columns
NonKeyIdx(t) == {k \in 1..Len(Cols(t)) : Cols(t)[k] \notin Range(KeyCols(t))}

\* the file of n data lines written under the canonical header, the name at
\* position i of the header line then replaced
RenamedFile(t, i, n) == [PermFile(t, Cols(t), n) EXCEPT !.hdr = RenameHdr(t, i)]

\* the files of t that are followed: the header with one name less, with
\* one name more, or with a name replaced
HdrFiles(t) ==
  {PermFile(t, DropHdr(t, i), n) : i \in 1..Len(Cols(t)), n \in 0..MaxRows}
  \cup {PermFile(t, ExtraHdr(t, i), n) : i \in 1..(Len(Cols(t)) + 1), n \in 0..MaxRows}
  \cup {RenamedFile(t, i, n) : i \in NonKeyIdx(t), n \in 0..MaxRows}

InitHdr ==
  /\ db = InitDb(FALSE, FALSE)
  /\ \/ /\ dataDir = FALSE
        /\ files = [t \in TableNames |-> Absent]
     \/ /\ dataDir = TRUE
        /\ \E f \in TableNames : \E file \in HdrFiles(f) :
              files = [t \in TableNames |-> IF t = f THEN file ELSE Absent]
  /\ \E p, k \in BOOLEAN : env = [keyNotNull |-> k, tmpInPath |-> p]
  /\ InitRun

SpecHdr == InitHdr /\ [][Next]_vars

(***************************************************************************)
(* Runs of main during which another process removes files from the data   *)
(* directory.                                                              *)
(***************************************************************************)
\* the files another process removes that are followed
MaxRemoved == 1

\* another process deletes the source file of a table while the run is under way
RemoveFile ==
  /\ tx.open
  /\ Cardinality({t \in TableNames : ~files[t].exists}) < MaxRemoved
  /\ \E t \in TableNames :
        /\ files[t].exists
        /\ files' = [files EXCEPT ![t] = Absent]
  /\ UNCHANGED <<dataDir, env, db, tx, pc, idx, csv, tmpCsv, log, err, pre, last, loaded, call, ret,
                 feeder, ops>>

NextRace ==
  \/ Next
  \/ RemoveFile

\* the data directory is missing, or holds all seven files, well-formed
InitRace ==
  /\ \E preloaded \in BOOLEAN : db = InitDb(preloaded, FALSE)
  /\ \/ /\ dataDir = FALSE
        /\ files = [t \in TableNames |-> Absent]
     \/ /\ dataDir = TRUE
        /\ files = [t \in TableNames |-> GoodFile(t)]
  /\ env = PlainEnv
  /\ InitRun

SpecRace == InitRace /\ [][NextRace]_vars

(***************************************************************************)
(* incidents_feeder.py running next to main: the feeder's transactions and *)
(* the import's transaction work on the same incidents table.  Each side   *)
(* sees what the other has committed; an INSERT that reaches a key the     *)
(* other side has inserted and not yet committed waits until that          *)
(* transaction ends, and two transactions waiting for each other are       *)
(* resolved by the database aborting one of them.                          *)
(***************************************************************************)
\* the ticks of the feeder's endless loop that are followed
MaxTicks == 2

\* BATCH_RANGE is (1, 3); the batches that are followed hold up to MaxBatch rows
MaxBatch == 2

\* the column list of the feeder's INSERT, lines 96-98
FeederCols ==
  <<"incident_id", "timestamp", "type", "severity", "lat", "lon",
    "affected_segment_id", "description", "source">>

\* the conflict target of the feeder's INSERT, line 102
FeederConflict == <<"incident_id">>

\* the incident types synth_incident draws from, line 50-52
IncidentTypes == <<"accident", "roadwork", "closure", "hazard">>

\* of the four types, the first MaxTypes are followed
MaxTypes == 2

FeederTypes == {IncidentTypes[i] : i \in 1..(IF MaxTypes < 4 THEN MaxTypes ELSE 4)}

\* of the severities random.randint(1, 5) draws, those up to MaxSeverity are followed
MaxSeverity == 1

Severities == 1..(IF MaxSeverity < 5 THEN MaxSeverity ELSE 5)

\* the description of each type, line 53-58; the strings of the model are
\* ASCII, the EM DASH of line 57 is written as its escape \u2014
Desc(itype) ==
  CASE itype = "accident" -> "Two-vehicle collision reported by motorists"
    [] itype = "roadwork" -> "Maintenance crew working on lane resurfacing"
    [] itype = "closure" -> "Temporary closure due to local event"
    [] itype = "hazard" -> "Debris on road \\u2014 caution"

\* the columns load_roads selects, line 33-34
LoadCols ==
  {"segment_id", "from_lat", "from_lon", "to_lat", "to_lon", "municipality", "province"}

\* float(None) raises TypeError: a coordinate of the segment is NULL
NoCoord(seg) == \E c \in {"from_lat", "from_lon", "to_lat", "to_lon"} : seg[c] = NULL

\* midpoint, lines 25-26, on one pair of coordinates: round((a + b) / 2.0, 6)
midpoint(a, b) ==
  IF (a[2] + b[2]) % 2 = 0 THEN <<"num", (a[2] + b[2]) \div 2>>
  ELSE <<"half", a[2] + b[2]>>

\* what one call of synth_incident draws: the identifier INC-<time>-<random>,
\* the type and the severity, and the segment random.choice hands it
Draws(roads) == [k : KeyToks, itype : FeederTypes, severity : Severities, seg : roads]

\* synth_incident, lines 48-75, as the typed row the INSERT stores
synth_incident(d) ==
  [c \in Range(FeederCols) |->
     CASE c = "incident_id" -> Text(d.k)
       [] c = "timestamp" -> <<"ts", "2025-06-02">>
       [] c = "type" -> <<"enum", d.itype>>
       [] c = "severity" -> <<"num", d.severity>>
       [] c = "lat" -> midpoint(d.seg["from_lat"], d.seg["to_lat"])
       [] c = "lon" -> midpoint(d.seg["from_lon"], d.seg["to_lon"])
       [] c = "affected_segment_id" -> d.seg["segment_id"]
       [] c = "description" -> Text(Desc(d.itype))
       [] c = "source" -> Text("simulator")]

\* the incidents rows the feeder's transaction sees: the committed ones and its own
FeederView == db.target["incidents"] \cup feeder.rows

\* the keys the import's transaction has inserted and not yet committed, those
\* of an INSERT that has not returned included
ImportHolds ==
  IF tx.open
  THEN Keys("incidents", tx.target["incidents"] \cup tx.part)
         \ Keys("incidents", db.target["incidents"])
  ELSE {}

\* line 79-85: load_roads reads the committed roads; SystemExit when there are none
FeederStart ==
  /\ feeder.pc = "off"
  /\ feeder' = IF db.target["roads"] = {}
               THEN [feeder EXCEPT !.pc = "exited", !.cause = "no_roads"]
               ELSE [feeder EXCEPT !.pc = "idle",
                                   !.roads = {[c \in LoadCols |-> r[c]] :
                                                r \in db.target["roads"]}]
  /\ UNCHANGED <<dataDir, env, files, db, tx, pc, idx, csv, tmpCsv, log, err, pre, last, loaded,
                 call, ret, ops>>

\* line 89-92: the size of the batch is drawn, each row of the payload is
\* synthesised from its own draws, and a transaction is opened; a segment
\* with a NULL coordinate ends the process with TypeError
FeederBegin ==
  /\ feeder.pc = "idle"
  /\ feeder.ticks < MaxTicks
  /\ \E n \in 1..MaxBatch : \E d \in [1..n -> Draws(feeder.roads)] :
        feeder' = IF \E j \in 1..n : NoCoord(d[j].seg)
                  THEN [feeder EXCEPT !.pc = "crashed", !.cause = "TypeError"]
                  ELSE [feeder EXCEPT !.pc = "insert",
                                      !.payload = [j \in 1..n |-> synth_incident(d[j])],
                                      !.i = 1,
                                      !.rows = {},
                                      !.ticks = @ + 1]
  /\ UNCHANGED <<dataDir, env, files, db, tx, pc, idx, csv, tmpCsv, log, err, pre, last, loaded,
                 call, ret, ops>>

\* the import's INSERT waits at a key the feeder holds, and the feeder's next
\* row has a key the import holds: each transaction waits for the other
MutualWait ==
  /\ pc = "insert"
  /\ ImportWaits
  /\ feeder.pc = "insert"
  /\ feeder.i <= Len(feeder.payload)
  /\ KeyOf("incidents", feeder.payload[feeder.i]) \in ImportHolds

\* variant: the feeder's INSERT has no ON CONFLICT clause
FeederInsert_NoConflictClause ==
  /\ feeder.pc = "insert"
  /\ feeder.i <= Len(feeder.payload)
  /\ KeyOf("incidents", feeder.payload[feeder.i]) \notin ImportHolds
  /\ LET res == InsertRows("incidents", FeederView, <<feeder.payload[feeder.i]>>, FALSE)
     IN  feeder' = IF res.cause # NoErr
                   THEN [feeder EXCEPT !.pc = "crashed", !.cause = res.cause, !.rows = {}]
                   ELSE [feeder EXCEPT !.i = @ + 1,
                                       !.rows = res.table \ db.target["incidents"]]
  /\ UNCHANGED <<dataDir, env, files, db, tx, pc, idx, csv, tmpCsv, log, err, pre, last, loaded,
                 call, ret, ops>>

\* line 93-106: the INSERT for one row of the payload; a failing statement
\* leaves the with block, the transaction is rolled back and the process dies
FeederInsert ==
  /\ feeder.pc = "insert"
  /\ feeder.i <= Len(feeder.payload)
  /\ KeyOf("incidents", feeder.payload[feeder.i]) \notin ImportHolds
  /\ LET res == InsertRows("incidents", FeederView, <<feeder.payload[feeder.i]>>,
                           FeederConflict # <<>>)
     IN  feeder' = IF res.cause # NoErr
                   THEN [feeder EXCEPT !.pc = "crashed", !.cause = res.cause, !.rows = {}]
                   ELSE [feeder EXCEPT !.i = @ + 1,
                                       !.rows = res.table \ db.target["incidents"]]
  /\ UNCHANGED <<dataDir, env, files, db, tx, pc, idx, csv, tmpCsv, log, err, pre, last, loaded,
                 call, ret, ops>>

\* line 91, 107-108: the with block ends, COMMIT; the import's later
\* statements see the committed rows
FeederCommit ==
  /\ feeder.pc = "insert"
  /\ feeder.i > Len(feeder.payload)
  /\ db' = [db EXCEPT !.target["incidents"] = @ \cup feeder.rows]
  /\ tx' = IF tx.open THEN [tx EXCEPT !.target["incidents"] = @ \cup feeder.rows] ELSE tx
  /\ feeder' = [feeder EXCEPT !.pc = "idle", !.rows = {}]
  /\ UNCHANGED <<dataDir, env, files, pc, idx, csv, tmpCsv, log, err, pre, last, loaded,
                 call, ret, ops>>

\* the import's INSERT has inserted the key of the feeder's next row and
\* waits at a key the feeder holds, while the feeder waits for the import:
\* the database aborts one of the two statements with "deadlock detected"
Deadlock ==
  /\ MutualWait
  /\ \/ /\ err' = DbError(Cur, "deadlock_detected")
        /\ pc' = "raising"
        /\ tx' = [tx EXCEPT !.at = 0, !.part = {}]
        /\ ops' = [ops EXCEPT !.inserts[Cur] = @ + 1]
        /\ UNCHANGED feeder
     \/ /\ feeder' = [feeder EXCEPT !.pc = "crashed", !.cause = "deadlock_detected",
                                    !.rows = {}]
        /\ UNCHANGED <<err, pc, tx, ops>>
  /\ UNCHANGED <<dataDir, env, files, db, idx, csv, tmpCsv, log, pre, last, loaded, call, ret>>

NextFeeder ==
  \/ Begin
  \/ LoopImport
  \/ LoopSkip
  \/ Commit
  \/ Finish
  \/ Rollback
  \/ ImporterOpen
  \/ ImporterRead
  \/ DropOld
  \/ Create
  \/ Copy
  \/ Insert
  \/ InsertUntilWait
  \/ DropNew
  \/ ImporterReturn
  \/ ImporterUnwind
  \/ FeederStart
  \/ FeederBegin
  \/ FeederInsert
  \/ FeederCommit
  \/ Deadlock

\* the incidents.csv files of the runs next to the feeder
FeederFiles ==
  {MkFile("incidents", rows) :
     rows \in SeqsUpTo({MkRow("incidents", "k1", "severity", "1"),
                        MkRow("incidents", "k2", "severity", "1"),
                        MkRow("incidents", "k1", "severity", "x")}, MaxRows)}

\* the roads the database holds before the feeder starts: none (roads.csv is
\* in the data directory), one segment, or one segment without from_lat
FeederRoads ==
  {{}, {PreRow("roads")}, {[PreRow("roads") EXCEPT !["from_lat"] = NULL]}}

\* roads are in the database or in the data directory, incidents.csv is
\* there and the incidents table is empty
InitFeeder ==
  /\ dataDir = TRUE
  /\ \E roads \in FeederRoads : \E f \in FeederFiles :
        /\ db = [InitDb(FALSE, FALSE) EXCEPT !.target["roads"] = roads]
        /\ files = [t \in TableNames |->
                      IF t = "incidents" THEN f
                      ELSE IF t = "roads" /\ roads = {} THEN GoodFile(t)
                      ELSE Absent]
  /\ env = PlainEnv
  /\ InitCommon
  /\ pc = "start"
  /\ call = NoCall
  /\ ret = NoCall
  /\ feeder = FeederOff

SpecFeeder == InitFeeder /\ [][NextFeeder]_vars

(***************************************************************************)
(* Vocabulary of the properties.                                           *)
(***************************************************************************)
\* the parents a table's rows reference (spec section 4.6, step 2)
Parents(t) ==
  CASE t = "historical_speeds" -> {"roads"}
    [] t = "incidents" -> {"roads"}
    [] t = "weather" -> {"roads"}
    [] t = "deliveries" -> {"truck_profiles"}
    [] t = "assignments" -> {"truck_profiles", "deliveries"}
    [] OTHER -> {}

Order(t) == IndexOf(steps, t)

Failing == pc \in {"raising", "rollback", "aborted"}

\* the field of data line r of file f under header name c
SourceField(f, r, c) == f.rows[r][IndexOf(f.hdr, c)]

\* data line r of t's source file, column by column through COPY and the cast
TypedRow(t, r) ==
  [c \in ColSet(t) |-> ApplyCast(t, c, CopyCell(SourceField(files[t], r, c)))]

RowOk(t, r) == \A c \in ColSet(t) : ~IsError(TypedRow(t, r)[c])

\* the source file of t has a value that fails a numeric, timestamp or JSON cast
FailsCast(t) ==
  /\ files[t].exists
  /\ \E r \in 1..Len(files[t].rows) : \E c \in ColSet(t) :
        /\ Casts(t, c) \notin {"NONE", "ENUM"}
        /\ IsError(TypedRow(t, r)[c])

\* the source file of t has an enum token outside the vocabulary
FailsEnum(t) ==
  /\ files[t].exists
  /\ EnumCol(t) # NoCol
  /\ \E r \in 1..Len(files[t].rows) :
        SourceField(files[t], r, EnumCol(t)) \notin Vocab(EnumCol(t)) \cup {"", QEmpty}

\* the source file of t has a well-formed row whose key the table did not hold
HasGoodNewRow(t) ==
  \E r \in 1..Len(files[t].rows) :
     RowOk(t, r) /\ KeyOf(t, TypedRow(t, r)) \notin Keys(t, pre.target[t])

Logged(e) == \E i \in 1..Len(log) : log[i] = e

\* nothing of this run has touched table t
Untouched(t) ==
  /\ ~Logged(<<"importing", t>>) /\ ~Logged(<<"skipped", t>>)
  /\ loaded[t] = {}
  /\ db.target[t] = pre.target[t] /\ db.staging[t] = pre.staging[t]
  /\ tx.open => tx.target[t] = pre.target[t] /\ tx.staging[t] = pre.staging[t]

(***************************************************************************)
(* C1.  If a row of a table's source file has a value that fails its       *)
(* column's cast, then after the run has ended the target table holds      *)
(* exactly the rows it held before the run: nothing of that file is        *)
(* committed.                                                              *)
(***************************************************************************)
C1_BadCastCommitsNothing ==
  \A t \in TableNames :
     (pc \in {"done", "aborted"} /\ FailsCast(t)) => db.target[t] = pre.target[t]

\* a run aborted by a failing cast in a file that also has a good new row
C1_Witness ==
  /\ pc = "aborted"
  /\ \E t \in TableNames :
        /\ FailsCast(t) /\ HasGoodNewRow(t)
        /\ err.stmt = t /\ err.cause \in {"invalid_int", "invalid_numeric"}

(***************************************************************************)
(* C2.  As claimed: after a run aborted by a later table, the rows loaded  *)
(* into an earlier table during the run are still in that table.           *)
(***************************************************************************)
C2_Original ==
  pc = "aborted" => \A t \in TableNames : loaded[t] \subseteq db.target[t]

(***************************************************************************)
(* C2, amended.  After a run aborted by a later table, none of the rows    *)
(* loaded into an earlier table during the run is in that table: the one   *)
(* transaction of the run is rolled back, and every table loaded earlier   *)
(* holds the rows it held before the run.                                  *)
(***************************************************************************)
C2_EarlierLoadsRolledBack ==
  pc = "aborted" =>
     \A t \in TableNames :
        loaded[t] # {} => (loaded[t] \cap db.target[t] = {} /\ db.target[t] = pre.target[t])

\* roads was loaded with new rows and a later table's INSERT failed
C2_Witness ==
  /\ pc = "aborted"
  /\ \E t \in TableNames : loaded[t] # {} /\ Order(t) < Order(err.stmt)

(***************************************************************************)
(* C3.  No run raises a duplicate-key error, and a run that follows a      *)
(* completed run over the same files does not fail and leaves every table  *)
(* with the same number of rows and the same keys as the first run left.   *)
(***************************************************************************)
C3_RerunIdempotent ==
  /\ err.cause # "unique_violation"
  /\ last.status = "done" =>
        /\ ~Failing
        /\ pc = "done" =>
             \A t \in TableNames :
                /\ Cardinality(db.target[t]) = Cardinality(last.target[t])
                /\ Keys(t, db.target[t]) = Keys(t, last.target[t])

\* a second completed run over a file whose rows the first run loaded
C3_Witness ==
  /\ pc = "done" /\ last.status = "done"
  /\ \E t \in TableNames :
        /\ files[t].exists /\ Len(files[t].rows) > 0
        /\ Cardinality(db.target[t]) > 1
        /\ loaded[t] = {}

(***************************************************************************)
(* C4.  Every row a table held before the import is still in the table,    *)
(* with all its values, during and after the import, also when the source  *)
(* file has a row with the same key and other values.                      *)
(***************************************************************************)
C4_ExistingRowsKept ==
  \A t \in TableNames :
     /\ tx.open => pre.target[t] \subseteq tx.target[t]
     /\ pc \in {"done", "aborted"} => pre.target[t] \subseteq db.target[t]

\* a completed run whose source held a row with an existing key and other values
C4_Witness ==
  /\ pc = "done"
  /\ \E t \in TableNames : \E old \in pre.target[t] :
        \E r \in 1..Len(files[t].rows) :
           /\ RowOk(t, r)
           /\ KeyOf(t, TypedRow(t, r)) = KeyOf(t, old)
           /\ TypedRow(t, r) # old

(***************************************************************************)
(* C5.  As claimed: when copy_with_temp has returned or raised, its        *)
(* staging table does not exist.                                           *)
(***************************************************************************)
C5_Original == pc \in {"returned", "raising"} => ~tx.staging[Cur].exists

(***************************************************************************)
(* C5, amended.  When copy_with_temp has returned, its staging table does  *)
(* not exist.  When it has raised, the final drop was not executed and the *)
(* staging table still exists in the transaction; it is gone only once     *)
(* main has rolled the transaction back, which leaves the staging tables   *)
(* as they were before the run.                                            *)
(***************************************************************************)
C5_StagingDroppedOnReturn ==
  /\ pc = "returned" => ~tx.staging[Cur].exists
  /\ pc = "raising" => tx.staging[Cur].exists
  /\ pc = "aborted" => db.staging = pre.staging
  /\ pc = "done" =>
       \A t \in TableNames : Logged(<<"importing", t>>) => ~db.staging[t].exists

\* copy_with_temp raised from its INSERT with the copied rows still staged
C5_Witness ==
  /\ pc = "raising"
  /\ err.kind = "DBAPIError"
  /\ tx.staging[Cur].exists /\ Len(tx.staging[Cur].rows) > 0

(***************************************************************************)
(* C6.  With every present file well-formed, whatever set of files is      *)
(* absent: no error is raised, and in the completed run every absent       *)
(* table is reported skipped with its table unchanged and every present    *)
(* table is imported, the keys of its file then being in its table.        *)
(***************************************************************************)
AllPresentValid ==
  \A t \in TableNames :
     files[t].exists =>
        /\ \A r \in 1..Len(files[t].rows) : Len(files[t].rows[r]) = Len(files[t].hdr)
        /\ files[t].hdr = Cols(t)
        /\ \A r \in 1..Len(files[t].rows) : RowOk(t, r)

C6_MissingFilesSkipped ==
  /\ (Failing \/ pc = "fatal" \/ err # NoError) => ~(dataDir /\ AllPresentValid)
  /\ (pc = "done" /\ AllPresentValid) =>
          \A t \in TableNames :
             IF files[t].exists
             THEN /\ Logged(<<"importing", t>>) /\ ~Logged(<<"skipped", t>>)
                  /\ \A r \in 1..Len(files[t].rows) :
                        KeyOf(t, TypedRow(t, r)) \in Keys(t, db.target[t])
             ELSE /\ Logged(<<"skipped", t>>) /\ ~Logged(<<"importing", t>>)
                  /\ db.target[t] = pre.target[t]

\* a completed run that skipped a table and loaded a later one
C6_Witness ==
  /\ pc = "done" /\ AllPresentValid
  /\ \E s, t \in TableNames :
        /\ Order(s) < Order(t)
        /\ ~files[s].exists /\ Logged(<<"skipped", s>>)
        /\ files[t].exists /\ loaded[t] # {}

(***************************************************************************)
(* C7.  While copy_with_temp works on a table, each parent of that table   *)
(* has been imported or skipped earlier in the run, and an imported        *)
(* parent's staging table is gone: its import has finished.                *)
(***************************************************************************)
C7_ParentsBeforeChildren ==
  pc \in {"drop_old", "create", "copy", "insert", "drop_new"} =>
     \A p \in Parents(Cur) :
        /\ p # Cur
        /\ \E i \in 1..(Len(log) - 1) :
              log[i] \in {<<"importing", p>>, <<"skipped", p>>}
        /\ Logged(<<"importing", p>>) => ~tx.staging[p].exists

\* the INSERT into assignments is about to run, both parents imported
C7_Witness ==
  /\ pc = "insert" /\ Cur = "assignments"
  /\ Logged(<<"importing", "truck_profiles">>)
  /\ Logged(<<"importing", "deliveries">>)
  /\ loaded["deliveries"] # {}

(***************************************************************************)
(* C8.  Once the import of a table has failed, the run only unwinds: the   *)
(* last line printed is that table's, and no table later in the order has  *)
(* been checked, staged, copied or inserted into.                          *)
(***************************************************************************)
C8_FailureAbortsRun ==
  err.kind \notin {"none", "SystemExit"} =>
     /\ Failing
     /\ log # <<>> /\ log[Len(log)] = <<"importing", Cur>>
     /\ \A i \in (idx + 1)..Len(steps) : Untouched(steps[i])

\* an aborted run with a present file later in the order
C8_Witness ==
  /\ pc = "aborted"
  /\ idx < Len(steps)
  /\ \E i \in (idx + 1)..Len(steps) : files[steps[i]].exists

(***************************************************************************)
(* C9.  When the source file of a table has an enum token outside the      *)
(* vocabulary, no run completes; the run that reaches the table fails in   *)
(* that table's INSERT with no row inserted, the error names the table     *)
(* and, no other cast failing, an enum validation cause; after the abort   *)
(* the table holds what it held before.                                    *)
(***************************************************************************)
C9_UnknownEnumAborts ==
  /\ pc = "done" => \A t \in TableNames : ~FailsEnum(t)
  /\ (Failing /\ FailsEnum(Cur)) =>
        /\ loaded[Cur] = {}
        /\ err.kind = "DBAPIError" /\ err.stmt = Cur
        /\ ~FailsCast(Cur) => err.cause = "invalid_enum"
        /\ log[Len(log)] = <<"importing", Cur>>
  /\ pc = "aborted" =>
        \A t \in TableNames : FailsEnum(t) => db.target[t] = pre.target[t]

\* a run aborted by an unknown enum token in a file that also has a good new row
C9_Witness ==
  /\ pc = "aborted"
  /\ \E t \in TableNames :
        /\ FailsEnum(t) /\ HasGoodNewRow(t)
        /\ err = DbError(t, "invalid_enum")

(***************************************************************************)
(* C10.  When DATA_DIR does not exist, the run ends in the fatal           *)
(* SystemExit at once: no transaction is open, nothing is printed for any  *)
(* table, no staging table is created and the database is as before.       *)
(***************************************************************************)
C10_MissingDataDirFatal ==
  ~dataDir =>
     /\ pc \in {"start", "fatal"}
     /\ ~tx.open
     /\ log = <<>>
     /\ db = pre
     /\ \A t \in TableNames : loaded[t] = {}
     /\ pc = "fatal" => err.kind = "SystemExit"

\* the script was started twice without DATA_DIR and exited both times
C10_Witness == pc = "fatal" /\ last.status = "fatal" /\ ~dataDir

(***************************************************************************)
(* The column normalisation of import_roads.                               *)
(***************************************************************************)
\* the canonical name a header name stands for, or the name itself
Canon(h) == IF h \in AliasNames /\ alias(h) # Drop THEN alias(h) ELSE h

\* no canonical column is named twice by the header, directly or by alias
NoDupCanon(hdr) ==
  \A i, j \in DOMAIN hdr :
     i # j /\ Canon(hdr[i]) = Canon(hdr[j]) => Canon(hdr[i]) \notin ColSet("roads")

\* import_roads has written its temporary CSV and is about to call copy_with_temp
RoadsNormalized == pc = "drop_old" /\ Cur = "roads" /\ csv = "tmp"

\* C11: for a roads file whose header names no canonical column twice, the
\* normalised frame written to the temporary CSV has exactly the 13 canonical
\* columns in canonical order (so no unknown or dropped column), as many
\* rows as the frame read from the source, under each canonical column the
\* values the source frame holds under the header that stands for it, and
\* the empty string in every row of a canonical column the source lacks.
C11_NormalizedFrame ==
  RoadsNormalized /\ NoDupCanon(files["roads"].hdr) =>
    LET f == files["roads"]
        src == read_csv(f)
        out == TmpFile("roads")
        cols == Cols("roads")
    IN  /\ out.hdr = cols
        /\ Len(out.rows) = src.n
        /\ \A r \in 1..Len(out.rows) :
              /\ Len(out.rows[r]) = Len(cols)
              /\ \A k \in 1..Len(cols) :
                    LET from == {i \in 1..Len(f.hdr) : Canon(f.hdr[i]) = cols[k]}
                    IN  IF from = {} THEN out.rows[r][k] = ""
                        ELSE \A i \in from : out.rows[r][k] = src.cols[i].vals[r]

\* an unknown name, an alias and a canonical name, out of canonical order,
\* over two rows of data
C11_Witness ==
  /\ RoadsNormalized
  /\ files["roads"].hdr = <<"zzz", "prov", "segment_id">>
  /\ Len(files["roads"].rows) = 2
  /\ TmpFile("roads").rows[2][1] = "r2c3"
  /\ TmpFile("roads").rows[2][13] = "r2c2"

\* C12: whatever the header of the roads file, the column list of the
\* normalised frame names each canonical column at most once.
C12_Original ==
  RoadsNormalized =>
    \A c \in ColSet("roads") :
       Cardinality({k \in 1..Len(TmpFile("roads").hdr) : TmpFile("roads").hdr[k] = c}) <= 1

(***************************************************************************)
(* Reordered headers.                                                      *)
(***************************************************************************)
\* the INSERT of the current table has succeeded
Inserted == pc = "drop_new"

\* data line r of t's source file, field by field in the order of cols
PositionalRow(t, r) ==
  [c \in ColSet(t) |->
     ApplyCast(t, c, CopyCell(files[t].rows[r][IndexOf(Cols(t), c)]))]

\* no earlier data line puts the same value in the key columns
FirstOfKey(t, r) ==
  \A q \in 1..(r - 1) :
     KeyOf(t, PositionalRow(t, q)) # KeyOf(t, PositionalRow(t, r))

\* C13 as stated: for each table and each file whose header is a
\* permutation of the canonical names, every data line is inserted with,
\* in each column c, the value the line holds under header c.
C13_Original ==
  Inserted =>
    \A r \in 1..Len(files[Cur].rows) : TypedRow(Cur, r) \in tx.target[Cur]

\* C13, amended: for roads every data line is inserted with, in each column
\* c, the value it holds under header c whatever the order of the header;
\* for the other six tables every data line is inserted with, in the i-th
\* column of cols, the value of its i-th field, so by header name exactly
\* when the header is in the order of cols.  (Of two lines that put the
\* same value in the key column only the first is inserted.)
C13_AlignedByPosition ==
  Inserted =>
    \A r \in 1..Len(files[Cur].rows) :
       /\ Cur = "roads" => TypedRow(Cur, r) \in tx.target[Cur]
       /\ Cur # "roads" /\ FirstOfKey(Cur, r) => PositionalRow(Cur, r) \in tx.target[Cur]
       /\ files[Cur].hdr = Cols(Cur) => TypedRow(Cur, r) \in tx.target[Cur]

\* an incidents file with description and source exchanged has been
\* inserted, and the description column holds the text written under source
C13_Witness ==
  /\ Inserted
  /\ Cur = "incidents"
  /\ files[Cur].hdr = SwapHdr("incidents", 8, 9)
  /\ \E row \in tx.target[Cur] : row["description"] = Text("source")

(***************************************************************************)
(* ensure_json.                                                            *)
(***************************************************************************)
\* ensure_json's loop body has returned for the value x
Coerced(x) == pc = "ret" /\ call = <<"ensure_json", x>>

\* C14 as stated: "" gives [], A,B,C gives exactly ["A","B","C"], ["X"]
\* is returned unchanged, and a null is mapped like the empty text.
C14_Original ==
  /\ Coerced(PyStr(<<>>)) => Str(ret) = "[]"
  /\ Coerced(PyStr(Chars("A,B,C"))) => Str(ret) = "[\"A\",\"B\",\"C\"]"
  /\ Coerced(PyStr(Chars("[\"X\"]"))) => Str(ret) = "[\"X\"]"
  /\ Coerced(NaN) => Str(ret) = "[]"

\* C14, amended: "" gives [], A,B,C gives the text ["A", "B", "C"] that
\* json.dumps writes with its default separators (a space after each
\* comma), ["X"] is returned unchanged, and a null is mapped like the
\* empty text.
C14_CoercionExamples ==
  /\ Coerced(PyStr(<<>>)) => Str(ret) = "[]"
  /\ Coerced(PyStr(Chars("A,B,C"))) => Str(ret) = "[\"A\", \"B\", \"C\"]"
  /\ Coerced(PyStr(Chars("[\"X\"]"))) => Str(ret) = "[\"X\"]"
  /\ Coerced(NaN) => Str(ret) = "[]"

\* the comma-joined tokens have been coerced
C14_Witness ==
  /\ Coerced(PyStr(Chars("A,B,C")))
  /\ ret = <<"[", "\"", "A", "\"", ",", " ", "\"", "B", "\"", ",", " ", "\"", "C", "\"", "]">>

(***************************************************************************)
(* JSON texts over the characters the coerced values are made of: strings, *)
(* numbers, arrays and objects, with spaces as whitespace.                 *)
(***************************************************************************)
RECURSIVE Ws(_, _)
\* the first index from i on that holds no space
Ws(cs, i) == IF i <= Len(cs) /\ cs[i] = " " THEN Ws(cs, i + 1) ELSE i

RECURSIVE JsonStringEnd(_, _)
\* the index after the closing quote of a string whose body starts at i, or 0
JsonStringEnd(cs, i) ==
  IF i > Len(cs) THEN 0
  ELSE IF cs[i] = "\"" THEN i + 1
  ELSE IF cs[i] = "\\"
       THEN IF i + 1 <= Len(cs) /\ cs[i + 1] \in {"\"", "\\", "/"}
            THEN JsonStringEnd(cs, i + 2) ELSE 0
  ELSE JsonStringEnd(cs, i + 1)

RECURSIVE JsonDigitsEnd(_, _)
JsonDigitsEnd(cs, i) ==
  IF i <= Len(cs) /\ cs[i] \in {"0", "1", "2", "3", "4", "5", "6", "7", "8", "9"}
  THEN JsonDigitsEnd(cs, i + 1) ELSE i

RECURSIVE JsonValueEnd(_, _)
RECURSIVE JsonElemsEnd(_, _)
RECURSIVE JsonMembersEnd(_, _)

\* the index after the JSON value that starts at i, or 0 if none starts there
JsonValueEnd(cs, i) ==
  IF i > Len(cs) THEN 0
  ELSE IF cs[i] = "\"" THEN JsonStringEnd(cs, i + 1)
  ELSE IF cs[i] = "["
       THEN LET j == Ws(cs, i + 1)
            IN  IF j <= Len(cs) /\ cs[j] = "]" THEN j + 1 ELSE JsonElemsEnd(cs, j)
  ELSE IF cs[i] = "{"
       THEN LET j == Ws(cs, i + 1)
            IN  IF j <= Len(cs) /\ cs[j] = "}" THEN j + 1 ELSE JsonMembersEnd(cs, j)
  ELSE IF cs[i] \in {"1", "2", "3", "4", "5", "6", "7", "8", "9"}
       THEN JsonDigitsEnd(cs, i + 1)
  ELSE IF cs[i] = "0" THEN i + 1
  ELSE 0

\* the index after the "]" that closes the array whose next element starts at i
JsonElemsEnd(cs, i) ==
  LET e == JsonValueEnd(cs, i)
      j == Ws(cs, e)
  IN  IF e = 0 \/ j > Len(cs) THEN 0
      ELSE IF cs[j] = "]" THEN j + 1
      ELSE IF cs[j] = "," THEN JsonElemsEnd(cs, Ws(cs, j + 1))
      ELSE 0

\* the index after the "}" that closes the object whose next member starts at i
JsonMembersEnd(cs, i) ==
  IF i > Len(cs) \/ cs[i] # "\"" THEN 0
  ELSE LET k == JsonStringEnd(cs, i + 1)
           c == Ws(cs, k)
       IN  IF k = 0 \/ c > Len(cs) \/ cs[c] # ":" THEN 0
           ELSE LET e == JsonValueEnd(cs, Ws(cs, c + 1))
                    j == Ws(cs, e)
                IN  IF e = 0 \/ j > Len(cs) THEN 0
                    ELSE IF cs[j] = "}" THEN j + 1
                    ELSE IF cs[j] = "," THEN JsonMembersEnd(cs, Ws(cs, j + 1))
                    ELSE 0

\* cs is the text of one JSON array or one JSON object
IsJsonContainer(cs) ==
  LET i == Ws(cs, 1)
  IN  /\ i <= Len(cs)
      /\ cs[i] \in {"[", "{"}
      /\ JsonValueEnd(cs, i) # 0
      /\ Ws(cs, JsonValueEnd(cs, i)) = Len(cs) + 1

\* C15: for every value handed to ensure_json (a null, a text, a list or a
\* mapping) the text it returns is a JSON array or a JSON object; a text
\* that only starts and ends with brackets or braces is not returned as is.
C15_Original ==
  pc = "ret" /\ call[1] = "ensure_json" => IsJsonContainer(ret)

(***************************************************************************)
(* The bulk copy into the staging table.                                   *)
(***************************************************************************)
\* the COPY of the current table has completed
Copied == pc = "insert"

\* C16: when the COPY of copy_with_temp has completed, the staging table
\* holds one row per data line of the file copied (as many as the source
\* file has), and every field of every row is the untyped text of the
\* line's field (NULL for an unquoted empty field): no value was parsed and
\* no line was left out because of the type of a value.
C16_StagingHoldsRawRows ==
  Copied =>
    LET rows == tx.staging[Cur].rows IN
    /\ tx.staging[Cur].exists
    /\ Len(rows) = Len(CsvFile.rows)
    /\ Len(rows) = Len(files[Cur].rows)
    /\ \A r \in 1..Len(rows) : \A i \in 1..Len(Cols(Cur)) :
          LET tok == CsvFile.rows[r][i]
              cell == rows[r][Cols(Cur)[i]]
          IN  /\ tok = "" => cell = NULL
              /\ tok = QEmpty => cell = Text("")
              /\ tok \notin {"", QEmpty} => cell = Text(tok)

\* a line whose numeric field holds the text x has been staged
C16_Witness ==
  /\ Copied
  /\ \E r \in 1..Len(tx.staging[Cur].rows) :
        /\ tx.staging[Cur].rows[r][PayloadCol(Cur)] = Text("x")
        /\ IsError(ApplyCast(Cur, PayloadCol(Cur), Text("x")))

(***************************************************************************)
(* The select expressions on the empty string.                             *)
(***************************************************************************)
\* the select expression of column c of table t has been evaluated on ''
CastOfEmpty(t, c) == pc = "ret" /\ call = <<"select_expr", t, c, Text("")>>

\* C17 as stated: for every numeric, timestamp and enum column with a cast
\* rule, the rule applied to the empty string yields NULL.
C17_Original ==
  \A t \in TableNames : \A c \in ColSet(t) :
     CastOfEmpty(t, c) /\ Casts(t, c) # "NONE" => ret = NULL

\* C17, amended: the rule applied to the empty string yields NULL for the
\* columns whose template is NULLIF(col, '')::type and for the enum columns;
\* for the columns whose template is CAST(col AS type), which are the four
\* coordinates of roads, lat and lon of weather and the timestamp of
\* historical_speeds, incidents and weather, the empty string is parsed and
\* the cast fails.
C17_EmptyStringPerTemplate ==
  \A t \in TableNames : \A c \in ColSet(t) :
     CastOfEmpty(t, c) =>
       /\ Casts(t, c) \in {"NULLIF_NUM", "NULLIF_INT", "NULLIF_TS", "NULLIF_JSON", "ENUM"}
            => ret = NULL
       /\ Casts(t, c) \in {"CAST_NUM", "CAST_TS"} => IsError(ret)
       /\ Casts(t, c) \in {"CAST_NUM", "CAST_TS"} <=>
            \/ t = "roads" /\ c \in {"from_lat", "from_lon", "to_lat", "to_lon"}
            \/ t = "weather" /\ c \in {"lat", "lon"}
            \/ t \in {"historical_speeds", "incidents", "weather"} /\ c = "timestamp"

\* CAST(from_lat AS NUMERIC(9,6)) has been evaluated on the empty string
C17_Witness ==
  /\ CastOfEmpty("roads", "from_lat")
  /\ ret = Error("invalid_numeric")

(***************************************************************************)
(* The INSERT without upsert.                                              *)
(***************************************************************************)
\* the INSERT of copy_with_temp has been executed with upsert disabled
PlainInsertDone == pc = "ret" /\ call[1] = "insert" /\ ~call[5]

\* a staging row of the call has a key the target table of the call holds
KeyExists ==
  \E r \in 1..Len(call[4]) :
     KeyOf(call[2], SelectRow(call[2], call[4][r])) \in Keys(call[2], call[3])

\* C18: when copy_with_temp's INSERT runs with upsert disabled and a source
\* row's key already exists in the target, the statement fails as a whole:
\* the target holds the rows it held before and the error is raised.
C18_PlainInsertFailsOnExistingKey ==
  PlainInsertDone /\ KeyExists =>
    /\ ret.cause # NoErr
    /\ ret.table = call[3]

\* a new row followed by a row whose key exists: the unique constraint
\* fails the statement and the new row is not in the target either
C18_Witness ==
  /\ PlainInsertDone
  /\ Len(call[4]) = 2
  /\ KeyOf(call[2], SelectRow(call[2], call[4][1])) \notin Keys(call[2], call[3])
  /\ KeyOf(call[2], SelectRow(call[2], call[4][2])) \in Keys(call[2], call[3])
  /\ ret.cause = "unique_violation"
  /\ ret.table = call[3]

(***************************************************************************)
(* A failing final DROP.                                                   *)
(***************************************************************************)
\* the final DROP of table t's staging table has failed in this run
DropFailed(t) == err.cause = "drop_failed" /\ err.stmt = t

\* C19 as stated: if the final DROP of the staging table fails after the
\* INSERT succeeded, the run does not abort because of it and the rows the
\* INSERT added are in the target table after the run has ended.
C19_Original ==
  \A t \in TableNames :
     DropFailed(t) =>
       /\ ~Failing
       /\ pc \in {"done", "aborted"} => loaded[t] \subseteq db.target[t]

\* C19, amended: if the final DROP of the staging table fails after the
\* INSERT succeeded, the exception leaves copy_with_temp and main: the run
\* aborts, no later table is imported, and after the run has ended every
\* target table holds exactly the rows it held before the run, so the rows
\* that INSERT added are rolled back.
C19_FailedDropAbortsRun ==
  \A t \in TableNames :
     DropFailed(t) =>
       /\ Failing
       /\ Cur = t
       /\ pc = "aborted" => db.target = pre.target

\* the run has ended after a failed DROP whose INSERT had added rows
C19_Witness ==
  /\ pc = "aborted"
  /\ DropFailed(Cur)
  /\ loaded[Cur] # {}
  /\ loaded[Cur] \cap db.target[Cur] = {}

(***************************************************************************)
(* The end of a run and what it has reported.                              *)
(***************************************************************************)
\* the run has ended: main returned, or an exception or SystemExit ended it
Completed == pc = "done"

Aborted == pc \in {"aborted", "fatal"}

Terminal == Completed \/ Aborted

\* the number of lines main has printed about table t
Reports(t) ==
  Cardinality({i \in 1..Len(log) : Len(log[i]) = 2 /\ log[i][2] = t})

\* the status the run has reported for table t: the skipped line, the
\* importing line followed by the exception, or the importing line alone
Status(t) ==
  IF Logged(<<"skipped", t>>) THEN "skipped"
  ELSE IF ~Logged(<<"importing", t>>) THEN "none"
  ELSE IF Failing /\ Cur = t THEN "failed"
  ELSE "loaded"

\* the tables the for loop has reached when the run ends
Attempted ==
  IF Completed THEN TableNames
  ELSE IF pc = "aborted" THEN {steps[i] : i \in 1..idx}
  ELSE {}

\* table t holds a row for every key of its source file
FileLoaded(t) ==
  \A r \in 1..Len(files[t].rows) :
     KeyOf(t, TypedRow(t, r)) \in Keys(t, db.target[t])

RunReport ==
  /\ Completed =>
        \A t \in TableNames :
           \/ Status(t) = "skipped" /\ ~file_in(t)
           \/ Status(t) = "loaded" /\ file_in(t) /\ FileLoaded(t)
  /\ Terminal =>
        /\ \A t \in Attempted : Reports(t) = 1 /\ Status(t) # "none"
        /\ \A t \in TableNames \ Attempted : Reports(t) = 0
        /\ pc = "aborted" => Status(Cur) = "failed"
        /\ \A t \in TableNames : Status(t) = "failed" => pc = "aborted" /\ t = Cur

\* C20: every run eventually ends, completed or aborted and never both;
\* it ends completed only if each of the seven tables was loaded or was
\* skipped because its file is absent; and when it ends, each table the
\* loop reached has been reported exactly once, as loaded, skipped or
\* failed, and no other table has been reported.
C20_RunEndsReported ==
  /\ [](pc = "start" => <>Terminal)
  /\ [](~(Completed /\ Aborted))
  /\ []RunReport

\* a run has ended aborted with one table loaded, one skipped, one failed
C20_Witness ==
  /\ pc = "aborted"
  /\ \E t1, t2, t3 \in Attempted :
        Status(t1) = "loaded" /\ Status(t2) = "skipped" /\ Status(t3) = "failed"

(***************************************************************************)
(* The event generator next to the import (C21).                           *)
(***************************************************************************)
\* no two of these incidents rows have the same incident_id
UniqueIncidents(rows) ==
  \A r1, r2 \in rows : KeyOf("incidents", r1) = KeyOf("incidents", r2) => r1 = r2

\* a row the event generator inserted
FromFeeder(r) == r["source"] = Text("simulator")

\* the import's INSERT of this run skipped a row of incidents.csv whose key
\* the event generator committed after the run's transaction began
ImportSkippedFeederRow ==
  /\ ops.inserts["incidents"] = 1
  /\ err = NoError
  /\ \E r \in db.target["incidents"] \ pre.target["incidents"] :
        /\ FromFeeder(r)
        /\ \E j \in 1..Len(files["incidents"].rows) :
              <<Text(files["incidents"].rows[j][1])>> = KeyOf("incidents", r)

\* the event generator's last INSERT skipped a row whose key this run's import added
FeederSkippedImportRow ==
  /\ feeder.pc = "insert"
  /\ feeder.i > 1
  /\ \E r \in loaded["incidents"] \cap db.target["incidents"] :
        KeyOf("incidents", r) = KeyOf("incidents", feeder.payload[feeder.i - 1])

\* C21: in every interleaving of the event generator's insert transactions
\* with an import of incidents.csv, the incidents table never holds two rows
\* with the same incident_id, as committed or as either transaction sees it,
\* and neither side fails with a duplicate-key error; both INSERTs name the
\* same nine columns and the same conflict key incident_id.
C21_NoDuplicateIncidents ==
  /\ UniqueIncidents(db.target["incidents"])
  /\ UniqueIncidents(FeederView)
  /\ tx.open => UniqueIncidents(tx.target["incidents"] \cup tx.part \cup feeder.rows)
  /\ err.cause # "unique_violation"
  /\ feeder.cause # "unique_violation"
  /\ FeederCols = Cols("incidents")
  /\ FeederConflict = KeyCols("incidents")
  /\ Upsert("incidents")

\* C21 witness: the run is complete, its INSERT skipped a key the event
\* generator had committed during the run, and the event generator's next
\* batch skipped a key the import added.
C21_Witness ==
  /\ Completed
  /\ ImportSkippedFeederRow
  /\ FeederSkippedImportRow

(***************************************************************************)
(* One staging table at a time (C23).                                      *)
(***************************************************************************)
\* the staging tables that exist as the run's transaction sees them
StagingTables == {t \in TableNames : tx.staging[t].exists}

\* the positions of a run at which the staging table that copy_with_temp
\* created for the current table exists
StagingCreated == pc \in {"copy", "insert", "drop_new", "raising", "rollback"}

\* the staging table of t is the one that was there before the run began
LeftOver(t) == pre.staging[t].exists /\ tx.staging[t] = pre.staging[t]

\* C23 as stated: at every point of a run at most one staging table exists,
\* and it belongs to the table currently being imported.
C23_Original ==
  tx.open =>
    /\ Cardinality(StagingTables) <= 1
    /\ \A t \in StagingTables : idx <= Len(steps) /\ t = Cur

\* C23: at every point of a run at most one staging table created by the run
\* exists, and it belongs to the table currently being imported; every other
\* staging table is one left over from before the run that no statement of
\* the run has touched.  The steps of one table all finish before any step
\* of the next table begins: a table after the current one has had no file
\* test and no statement, a table before it has no staging table of the run.
C23_OneStagingTableOfTheRun ==
  tx.open =>
    /\ \A t \in StagingTables :
          \/ idx <= Len(steps) /\ t = Cur /\ StagingCreated
          \/ LeftOver(t) /\ ops.inserts[t] = 0
    /\ \A t \in TableNames :
          /\ Order(t) > idx => ops.checks[t] = 0 /\ ops.inserts[t] = 0
                               /\ tx.staging[t] = pre.staging[t]
          /\ Order(t) < idx /\ ops.inserts[t] = 1 => ~tx.staging[t].exists

\* C23 witness: the third table's staging table holds the copied rows, the
\* two tables before it were imported and their staging tables dropped, and
\* the tables after it have not been touched.
C23_Witness ==
  /\ tx.open
  /\ pc = "insert"
  /\ idx = 3
  /\ tx.staging[Cur].rows # <<>>
  /\ \A i \in 1..2 : ops.inserts[steps[i]] = 1 /\ ~tx.staging[steps[i]].exists
  /\ \A i \in 4..Len(steps) : ops.checks[steps[i]] = 0

(***************************************************************************)
(* Staging tables left over from an earlier run (C24).                     *)
(***************************************************************************)
\* the rows of t's source file as the target's types hold them
FileRows(t) == {TypedRow(t, r) : r \in 1..Len(files[t].rows)}

\* what the rows of the staging table t had before the run would be in the target
LeftOverRows(t) ==
  {SelectRow(t, pre.staging[t].rows[r]) : r \in 1..Len(pre.staging[t].rows)}

\* copy_with_temp has run its INSERT for the current table, or has returned
AfterInsert == pc \in {"drop_new", "returned"}

\* C24: when a staging table with the derived name exists as the import of
\* its table starts, none of its rows reach the target: the rows the import
\* adds are rows of the source file of this call, the run's transaction and
\* the database never hold a left-over row that was not in the target
\* before, and the staging table is read by exactly one INSERT per call.
C24_LeftOverRowsDiscarded ==
  /\ \A t \in TableNames :
        /\ loaded[t] # {} => loaded[t] \subseteq FileRows(t)
        /\ pre.staging[t].exists =>
              /\ (LeftOverRows(t) \ pre.target[t]) \cap db.target[t] = {}
              /\ tx.open => (LeftOverRows(t) \ pre.target[t]) \cap tx.target[t] = {}
        /\ ops.inserts[t] <= 1
  /\ AfterInsert => ops.inserts[Cur] = 1

\* C24 witness: the INSERT of a table whose staging table was left over with
\* a row has added rows of the file to the target.
C24_Witness ==
  /\ pc = "drop_new"
  /\ pre.staging[Cur].exists
  /\ pre.staging[Cur].rows # <<>>
  /\ loaded[Cur] # {}
  /\ ops.inserts[Cur] = 1

(***************************************************************************)
(* One transaction for the whole run (C26).                                *)
(***************************************************************************)
\* the tables whose INSERT of this run added rows
LoadedTables == {t \in TableNames : loaded[t] # {}}

\* C26: after a run is aborted by the failure of any table, every target
\* table, the ones imported successfully earlier in the run included, holds
\* exactly the rows it held before the run started: all tables are imported
\* inside the one transaction main opens, so nothing is committed while the
\* run is under way.
C26_AbortRestoresEveryTable ==
  /\ pc = "aborted" => \A t \in TableNames : db.target[t] = pre.target[t]
  /\ tx.open => db = pre

\* C26 witness: a run aborted at its third table or later after the INSERTs
\* of two earlier tables had added rows.
C26_Witness ==
  /\ pc = "aborted"
  /\ idx >= 3
  /\ Cardinality({t \in LoadedTables : Order(t) < idx}) >= 2
  /\ \A t \in LoadedTables : loaded[t] \cap db.target[t] = {}

(***************************************************************************)
(* Duplicate keys inside one source file (C27).                            *)
(***************************************************************************)
\* the uniqueness key of data line r of t's source file
FileKey(t, r) == KeyOf(t, TypedRow(t, r))

\* data lines r1 < r2 of t's source file have the same uniqueness key,
\* which the target did not hold before the run
DupNewKey(t, r1, r2) ==
  /\ r1 < r2
  /\ FileKey(t, r1) = FileKey(t, r2)
  /\ FileKey(t, r1) \notin Keys(t, pre.target[t])

HasDupNewKey(t) ==
  \E r1, r2 \in 1..Len(files[t].rows) : DupNewKey(t, r1, r2)

\* C27: when the source file of an upsert-enabled table holds two or more
\* rows with the same uniqueness key and the key is not yet in the target,
\* the INSERT does not fail because of the key (it fails only when a row of
\* the file fails a cast), and after it the target holds exactly one row
\* for that key, a row of the file.
C27_DuplicatesInFileSkipped ==
  idx <= Len(steps) /\ Upsert(Cur) /\ HasDupNewKey(Cur) =>
    /\ pc = "raising" => /\ err.cause # "unique_violation"
                         /\ \E r \in 1..Len(files[Cur].rows) : ~RowOk(Cur, r)
    /\ AfterInsert =>
          \A r1, r2 \in 1..Len(files[Cur].rows) :
             DupNewKey(Cur, r1, r2) =>
                /\ Cardinality({row \in tx.target[Cur] :
                                  KeyOf(Cur, row) = FileKey(Cur, r1)}) = 1
                /\ \E row \in loaded[Cur] \cap FileRows(Cur) :
                      KeyOf(Cur, row) = FileKey(Cur, r1)

\* C27 witness: the INSERT has succeeded on a file with two rows that have
\* the same new key and different values.
C27_Witness ==
  /\ pc = "drop_new"
  /\ \E r1, r2 \in 1..Len(files[Cur].rows) :
        /\ DupNewKey(Cur, r1, r2)
        /\ TypedRow(Cur, r1) # TypedRow(Cur, r2)
        /\ TypedRow(Cur, r1) \in tx.target[Cur]
        /\ TypedRow(Cur, r2) \notin tx.target[Cur]

(***************************************************************************)
(* upsert without key columns (C28).                                       *)
(***************************************************************************)
\* the INSERT of copy_with_temp has been executed with the arguments of call
InsertDone == pc = "ret" /\ call[1] = "insert"

\* no staging row of the call fails a cast
CastsOk ==
  \A r \in 1..Len(call[4]) : \A c \in ColSet(call[2]) :
     ~IsError(SelectRow(call[2], call[4][r])[c])

\* every staging row of the call has a key
KeysNotNull == \A r \in 1..Len(call[4]) : ~NullKey(call[2], call[4][r])

\* C28: copy_with_temp adds ON CONFLICT DO NOTHING only when upsert is true
\* and key_cols is non-empty: with both, no key fails the INSERT; called with
\* upsert=True and key_cols empty or None it executes the plain INSERT, whose
\* outcome is that of the same call with upsert=False, and a key the target
\* holds then fails the statement with the target left as it was (as a
\* duplicate key, when no row comes without a key).
C28_UpsertNeedsKeyCols ==
  InsertDone =>
    /\ call[5] /\ call[6] \notin {<<>>, None} => ret.cause # "unique_violation"
    /\ call[5] /\ call[6] \in {<<>>, None} =>
          /\ ret = InsertSelect(call[2], call[3], call[4], FALSE, KeyCols(call[2]))
          /\ KeyExists /\ CastsOk => ret.cause # NoErr /\ ret.table = call[3]
          /\ KeyExists /\ CastsOk /\ KeysNotNull => ret.cause = "unique_violation"

\* C28 witness: upsert=True with key_cols None on a staging table with a key
\* the target holds: the statement has failed on it.
C28_Witness ==
  /\ InsertDone
  /\ call[5]
  /\ call[6] = None
  /\ KeyExists
  /\ CastsOk
  /\ ret.cause = "unique_violation"

(***************************************************************************)
(* The temporary CSV files of the importers (C29).                         *)
(***************************************************************************)
\* no importer is running: the last one has returned or has raised
OutsideImporter ==
  pc \in {"start", "loop", "rollback", "aborted", "committed", "done", "fatal"}

\* C29: every temporary CSV file an importer creates (the normalised roads
\* file, the JSON-coerced assignments file) has been removed by the time
\* the importer returns or raises.
C29_Original ==
  OutsideImporter => \A t \in DOMAIN tmpCsv : tmpCsv[t] = <<>>

(***************************************************************************)
(* A source file removed during the run (C25).                             *)
(***************************************************************************)
\* main has printed that t is being imported and t's importer has returned
ImportReturned(t) ==
  /\ Logged(<<"importing", t>>)
  /\ \/ Order(t) < idx
     \/ pc = "returned" /\ Cur = t

\* C25: a table the orchestrator has reported as being imported is always
\* either loaded (its INSERT has run) or reported as failed (its importer
\* did not return), also when the file is removed by another process right
\* after the orchestrator's check.
C25_Original ==
  \A t \in TableNames :
     ImportReturned(t) => ops.inserts[t] = 1

(***************************************************************************)
(* Headers with a column missing or a column too many (C22).               *)
(***************************************************************************)
\* the header of t's source file is a strict subset or a strict superset of
\* the canonical columns of t
SubOrSuperHeader(t) ==
  /\ files[t].exists
  /\ Range(files[t].hdr) # ColSet(t)
  /\ \/ Range(files[t].hdr) \subseteq ColSet(t)
     \/ ColSet(t) \subseteq Range(files[t].hdr)

\* data line r of t's file as the claim wants it loaded: the value under
\* each canonical name, NULL for a canonical name the header lacks
TolerantRow(t, r) ==
  [c \in ColSet(t) |->
     IF c \in Range(files[t].hdr) THEN TypedRow(t, r)[c] ELSE NULL]

\* the run is failing at table t
FailsAt(t) == Failing /\ idx <= Len(steps) /\ Cur = t

\* data line r of t's file is in the target as the claim wants it loaded
LoadedTolerant(t, r) ==
  \E row \in tx.target[t] : \A c \in ColSet(t) : row[c] = TolerantRow(t, r)[c]

\* the header of t's file lacks a key column of t
LacksKey(t) == ~(Range(KeyCols(t)) \subseteq Range(files[t].hdr))

====
